---------------------------- MODULE Spec2Model ----------------------------
(***************************************************************************)
(* Model of lawson-quant-library: the equity option instrument, its        *)
(* Newton-Raphson implied-volatility solver and the analytic pricing       *)
(* model layer it drives (Spec, LiveSpec); the option pricing API and its  *)
(* model resolution (OptionSpec); the Garman-Kohlhagen FX model (FXSpec);  *)
(* year fractions and tenor parsing (UtilSpec); the deposit-quote          *)
(* bootstrap of IRCurve (CurveSpec); the flat and surface term structures  *)
(* of EQVol (VolSpec); option construction (CtorSpec); re-pricing after    *)
(* market moves (RepriceSpec); portfolio aggregation (PortfolioSpec); the  *)
(* option structure builders (StructureSpec); and the greek fallbacks of   *)
(* Option (GreekSpec).                                                     *)
(*                                                                         *)
(* Numbers are fixed point.  Volatilities are integers in units of 1e-6    *)
(* (0.20 is 200000).  Prices, price differences, tolerances and vegas are  *)
(* integers in units of 1e-8 (a price of 0.636 is 63600000; the default    *)
(* tolerance 1e-6 is 100; the vega threshold 1e-8 is 1).  Dates are day    *)
(* numbers.  Spot is 10 (or 12), the flat rate 3%, the dividend yield 0.   *)
(***************************************************************************)
EXTENDS Integers, Sequences, FiniteSets, TLC

VARIABLES
    opt,        \* the EQOption instance: economics, market inputs, bound model
    vols,       \* the EQVol objects alive, by identity (index)
    models,     \* the BlackScholesAnalyticEQModel objects alive, by identity
    evalDate,   \* ql.Settings.instance().evaluationDate, the ambient date
    call,       \* the implied_vol call in progress (its local variables)
    px,         \* the last Option.price / Option.vega call and its outcome
    res         \* the last call of a stateless operation and its outcome

vars == <<opt, vols, models, evalDate, call, px, res>>

\* None, for a name, a number, an object reference and a term structure.
None == "None"
NoSpot == 0
Null == 0
NoTS == [kind |-> "none", sigma |-> 0, ref |-> 0]

\* ------------------------------------------------------------ bounds
\* Largest max_iter argument drawn for a call.
MaxIterArg == 3

\* ------------------------------------------------------------ constants
\* tol: float = 1e-6
DefaultTol == 100
\* initial_vol: float = 0.20
DefaultInitialVol == 200000
\* if abs(vega) < 1e-8
VegaMin == 1
\* sigma = 1e-6
SigmaFloor == 1
\* one unit of volatility (1.0) in volatility units
VolOne == 1000000
\* the model's largest representable volatility (10.0): the price table's last knot
SigmaCap == 10000000

\* ------------------------------------------------------------ arithmetic
Abs(x) == IF x < 0 THEN -x ELSE x

Max(a, b) == IF a >= b THEN a ELSE b

\* <<q, r>> with a*b = q*c + r and 0 <= r < c, for a, b >= 0 and 0 < c < 2^30,
\* computed by doubling so that no intermediate value leaves 32 bits: the
\* fixed-point image of the float expression a*b/c.
RECURSIVE MulDivQR(_, _, _)
MulDivQR(a, b, c) ==
    IF b = 0 THEN <<0, 0>>
    ELSE LET h  == MulDivQR(a, b \div 2, c)
             q2 == 2 * h[1] + ((2 * h[2]) \div c)
             r2 == (2 * h[2]) % c
             s  == r2 + (a % c)
         IN  IF b % 2 = 1
             THEN <<q2 + (a \div c) + (s \div c), s % c>>
             ELSE <<q2, r2>>

MulDiv(a, b, c) == MulDivQR(a, b, c)[1]

\* ------------------------------------------------------------ QuantLib
(***************************************************************************)
(* The analytic European engine (QuantLib, outside the repository) is      *)
(* modelled by the Black-Scholes-Merton call value and vega tabulated at   *)
(* the knots of SigmaGrid, for the market (spot 10 or 12, r = 3%, q = 0)   *)
(* and the (strike, days to expiry) pairs the model draws, with linear     *)
(* interpolation between knots.                                            *)
(***************************************************************************)
SigmaGrid ==
    <<0, 10000, 25000, 50000, 100000, 150000, 200000, 250000, 300000,
      400000, 600000, 1000000, SigmaCap>>

\* One unit of price (1.0) in price units.
PriceOne == 100000000

\* NPV of the call at each knot.
CallTable(S, K, days) ==
    CASE S = 10 /\ K = 10 /\ days = 182 ->
           <<14847576, 14890656, 16783586, 22640067, 36004329, 49763690,
             63613325, 77487145, 91360101, 119055055, 174049650, 281397134,
             999588608>>
      [] S = 10 /\ K = 10 /\ days = 181 ->
           <<14766601, 14810265, 16705459, 22551668, 35883002, 49606276,
             63419091, 77255894, 91091841, 118713190, 173563784, 280644450,
             999573223>>
      [] S = 10 /\ K = 10 /\ days = 180 ->
           <<14685619, 14729875, 16627316, 22463182, 35761466, 49448538,
             63224421, 77024096, 90822921, 118370441, 173076575, 279889457,
             999557257>>
      [] S = 10 /\ K = 5 /\ days = 1 ->
           <<500041094, 500041094, 500041094, 500041094, 500041094, 500041094,
             500041094, 500041094, 500041094, 500041094, 500041094, 500041094,
             515659083>>
      [] S = 12 /\ K = 10 /\ days = 182 ->
           <<214847576, 214847576, 214847576, 214847576, 214907206,
             216248489, 220506707, 227536199, 236608376, 258595430,
             309876253, 420102453, 1199549497>>
      [] S = 12 /\ K = 10 /\ days = 181 ->
           <<214766601, 214766601, 214766601, 214766601, 214824780,
             216148163, 220369965, 227355256, 236381169, 258276462,
             309384132, 419302829, 1199532650>>
      [] S = 12 /\ K = 10 /\ days = 180 ->
           <<214685619, 214685619, 214685619, 214685619, 214742368,
             216047920, 220233283, 227174267, 236153771, 257956986,
             308890882, 418500890, 1199515167>>
      [] S = 12 /\ K = 5 /\ days = 1 ->
           <<700041094, 700041094, 700041094, 700041094, 700041094,
             700041094, 700041094, 700041094, 700041094, 700041094,
             700041094, 700041094, 707762380>>

\* vega (dNPV/dsigma) at each knot; the same for a call and a put.
VegaTable(S, K, days) ==
    CASE S = 10 /\ K = 10 /\ days = 182 ->
           <<0, 29652608, 195261425, 255566516, 273234476, 276446402,
             277352489, 277523683, 277352489, 276446402, 273234476, 262654323,
             549093>>
      [] S = 10 /\ K = 10 /\ days = 181 ->
           <<0, 29939095, 195116807, 254999858, 272528527, 275714449,
             276613163, 276782963, 276613163, 275714449, 272528527, 262032561,
             566683>>
      [] S = 10 /\ K = 10 /\ days = 180 ->
           <<0, 30227889, 194969320, 254430573, 271820253, 274980238,
             275871598, 276040007, 275871598, 274980238, 271820253, 261408281,
             584828>>
      [] S = 10 /\ K = 5 /\ days = 1 ->
           <<0, 0, 0, 0, 0, 0, 0, 0, 0, 0, 0, 0, 5935623>>
      [] S = 12 /\ K = 10 /\ days = 182 ->
           <<0, 0, 0, 50, 6179758, 53981377, 115168587, 163405224, 197416428,
             237618036, 268730073, 276772942, 601268>>
      [] S = 12 /\ K = 10 /\ days = 181 ->
           <<0, 0, 0, 47, 6051320, 53399593, 114333988, 162489606, 196487721,
             236716277, 267898684, 276066914, 620528>>
      [] S = 12 /\ K = 10 /\ days = 180 ->
           <<0, 0, 0, 43, 5924248, 52818469, 113497899, 161571362, 195555952,
             235811325, 267064272, 275357920, 640396>>
      [] S = 12 /\ K = 5 /\ days = 1 ->
           <<0, 0, 0, 0, 0, 0, 0, 0, 0, 0, 0, 0, 3857972>>

\* S*exp(-q*T) - K*exp(-r*T): call minus put (q = 0, so the first term is the spot).
ForwardIntrinsic(S, K, days) ==
    CASE K = 10 /\ days = 182 -> S * PriceOne - 985152424
      [] K = 10 /\ days = 181 -> S * PriceOne - 985233399
      [] K = 10 /\ days = 180 -> S * PriceOne - 985314381
      [] K = 5 /\ days = 1 -> S * PriceOne - 499958906

\* Linear interpolation of a knot table at volatility s, 0 <= s; flat past the
\* last knot.
Interp(tab, s) ==
    IF s >= SigmaCap THEN tab[Len(SigmaGrid)]
    ELSE LET i  == CHOOSE j \in 1..(Len(SigmaGrid) - 1) :
                       SigmaGrid[j] <= s /\ s < SigmaGrid[j + 1]
             dy == tab[i + 1] - tab[i]
             m  == MulDiv(Abs(dy), s - SigmaGrid[i], SigmaGrid[i + 1] - SigmaGrid[i])
         IN  IF dy >= 0 THEN tab[i] + m ELSE tab[i] - m

\* Black-Scholes-Merton value of the option at volatility s >= 0, days > 0.
BlackScholes(otype, S, K, days, s) ==
    LET c == Interp(CallTable(S, K, days), s)
    IN  IF otype = "call" THEN c ELSE c - ForwardIntrinsic(S, K, days)

\* Value at expiry (zero variance at zero time): the intrinsic value.
Intrinsic(otype, S, K) ==
    IF otype = "call" THEN Max(S - K, 0) * PriceOne ELSE Max(K - S, 0) * PriceOne

\* A call that returned v / a call that raised e.
Value(v) == [ok |-> TRUE, val |-> v, err |-> None]
Raise(e) == [ok |-> FALSE, val |-> 0, err |-> e]

\* VanillaOption.NPV() under AnalyticEuropeanEngine: ts is the Black vol term
\* structure the process's handle is linked to, today the ambient evaluation
\* date.  An instrument whose exercise date has occurred is expired and worth 0;
\* a date before the term structure's reference date, an empty handle or a
\* negative volatility is a library error; zero time to expiry has zero
\* variance and gives the intrinsic value.
NPV(o, S, ts, today) ==
    IF o.maturity_date <= today THEN Value(0)
    ELSE IF ts = NoTS THEN Raise("LibraryError")
    ELSE IF o.maturity_date < ts.ref \/ ts.sigma < 0 THEN Raise("LibraryError")
    ELSE IF o.maturity_date = ts.ref THEN Value(Intrinsic(o.option_type, S, o.strike))
    ELSE Value(BlackScholes(o.option_type, S, o.strike,
                            o.maturity_date - ts.ref, ts.sigma))

\* VanillaOption.vega() under the same engine.
QlVega(o, S, ts, today) ==
    IF o.maturity_date <= today THEN Value(0)
    ELSE IF ts = NoTS THEN Raise("LibraryError")
    ELSE IF o.maturity_date < ts.ref \/ ts.sigma < 0 THEN Raise("LibraryError")
    ELSE IF o.maturity_date = ts.ref THEN Value(0)
    ELSE Value(Interp(VegaTable(S, o.strike, o.maturity_date - ts.ref), ts.sigma))

\* ------------------------------------------------------------ EQVol
\* EQVol.__init__: an empty relinkable handle and no stored term structure.
NewEQVol(currency) == [currency |-> currency, vol_ts |-> NoTS, handle |-> NoTS]

\* EQVol.set_flat_vol: a BlackConstantVol anchored at reference_date (the
\* evaluation date inside the scoped block) is stored and the handle relinked.
set_flat_vol(v, sigma, reference_date) ==
    LET vol_ts == [kind |-> "flat", sigma |-> sigma, ref |-> reference_date]
    IN  [v EXCEPT !.vol_ts = vol_ts, !.handle = vol_ts]

\* ------------------------------------------------------------ the pricing model
\* The public methods of BlackScholesAnalyticEQModel.
BlackScholesAnalyticEQModelMethods == {"set_spot", "price", "greeks"}

\* BlackScholesAnalyticEQModel(spot, ir_curve, div_curve, vol) after
\* __post_init__: quote is _spot_quote, the SimpleQuote the process prices
\* from; the process holds the vol object's handle, so the vol is read through
\* it at pricing time.
NewModel(spot, ir_curve, div_curve, vol) ==
    [spot |-> spot, ir_curve |-> ir_curve, div_curve |-> div_curve, vol |-> vol,
     quote |-> spot]

\* (every style is accepted)
BuildQlOptionAnyStyle(o) == Value(0)

\* _build_ql_option: the style check comes first and raises ValueError for a
\* style other than "European"; only after it are the payoff and the exercise
\* built.
BuildQlOption(o) ==
    IF o.style # "European" THEN Raise("UnsupportedStyle") ELSE Value(0)

\* BlackScholesAnalyticEQModel.price(option)
ModelPrice(m, o, vs, today) ==
    IF ~BuildQlOption(o).ok THEN BuildQlOption(o)
    ELSE NPV(o, m.quote, vs[m.vol].handle, today)

\* BlackScholesAnalyticEQModel.greeks(option)["vega"]
ModelGreeksVega(m, o, vs, today) ==
    IF ~BuildQlOption(o).ok THEN BuildQlOption(o)
    ELSE QlVega(o, m.quote, vs[m.vol].handle, today)

\* tmp_model.vega(self): an attribute lookup on the model, then the call.
ModelVega(m, o, vs, today) ==
    IF "vega" \notin BlackScholesAnalyticEQModelMethods THEN Raise("AttributeError")
    ELSE ModelGreeksVega(m, o, vs, today)

\* ------------------------------------------------------------ EQOption
\* Option economics drawn: an at-the-money half-year option and a deep
\* in-the-money option one day from expiry.
Economics == {[strike |-> 10, maturity_date |-> 182], [strike |-> 5, maturity_date |-> 1]}

\* Dates drawn for the ambient evaluation date and for reference_date.
Dates == {0, 1, 2}

\* The market objects a caller holds: one spot, one IRCurve, one DivCurve and
\* one EQVol (object 1 of vols), flat at DefaultInitialVol as of day 0.
Spots == {10}
BaseVol == set_flat_vol(NewEQVol("USD"), DefaultInitialVol, 0)

\* The engine name with the alias "default" normalised.
Engine(o) == IF o.pricing_engine = "default" THEN "bs_analytic" ELSE o.pricing_engine

\* EQOption.validate_market: the names of the market inputs that are None.
MissingMarket(o) ==
    (IF o.spot = NoSpot THEN {"spot"} ELSE {})
    \cup (IF o.ir_curve = None THEN {"ir_curve"} ELSE {})
    \cup (IF o.div_curve = None THEN {"div_curve"} ELSE {})
    \cup (IF o.vol = Null THEN {"vol"} ELSE {})

\* EQOption._maybe_build_default_model: None unless the engine is bs_analytic
\* and all four market inputs are set.
NoModel == NewModel(NoSpot, None, None, Null)
MaybeBuildDefaultModel(o) ==
    IF Engine(o) # "bs_analytic" THEN NoModel
    ELSE IF MissingMarket(o) # {} THEN NoModel
    ELSE NewModel(o.spot, o.ir_curve, o.div_curve, o.vol)

\* Binds a freshly built default model (when one can be built) on an option
\* that has none: the tail of __post_init__ and of set_market.
BindDefault(o, ms) ==
    IF o.model = Null /\ Engine(o) = "bs_analytic" /\ MaybeBuildDefaultModel(o) # NoModel
    THEN <<[o EXCEPT !.pricing_engine = Engine(o), !.model = Len(ms) + 1],
           Append(ms, MaybeBuildDefaultModel(o))>>
    ELSE <<[o EXCEPT !.pricing_engine = Engine(o)], ms>>

\* EQOption(strike=, maturity_date=, option_type=, style=, pricing_engine=)
\* after __post_init__, no market input given.
NewEQOption(e, otype, style, engine) ==
    BindDefault([strike |-> e.strike, maturity_date |-> e.maturity_date,
                 option_type |-> otype, style |-> style, pricing_engine |-> engine,
                 spot |-> NoSpot, ir_curve |-> None, div_curve |-> None,
                 vol |-> Null, model |-> Null], <<>>)[1]

\* ------------------------------------------------------------ implied_vol
\* What the caller can observe of the option and its market objects.
Snapshot(o, vs, ms) ==
    [opt |-> o,
     vol |-> IF o.vol = Null THEN NewEQVol(None) ELSE vs[o.vol],
     model |-> IF o.model = Null THEN NoModel ELSE ms[o.model],
     nvols |-> Len(vs), nmodels |-> Len(ms)]

\* No option: the filler of a snapshot outside a call.
NoOption ==
    [strike |-> 0, maturity_date |-> 0, option_type |-> None, style |-> None,
     pricing_engine |-> None, spot |-> NoSpot, ir_curve |-> None,
     div_curve |-> None, vol |-> Null, model |-> Null]

\* The local state of no call.
IdleCall ==
    [pc |-> "Idle", target_price |-> 0, reference_date |-> 0, tol |-> 0,
     max_iter |-> 0, sigma |-> 0, iter |-> 0, priceEvals |-> 0, vegaEvals |-> 0,
     price |-> 0, vega |-> 0, priced |-> 0, ret |-> 0, err |-> None,
     sigma_true |-> 0, pre |-> Snapshot(NoOption, <<>>, <<>>)]

\* (the loop bound off by one)
LoopContinuesInclusive(i, max_iter) == i <= max_iter

\* for _ in range(max_iter): another iteration follows i completed ones.
LoopContinues(i, max_iter) == i < max_iter

\* (the convergence test without the absolute value)
ConvergesSigned(diff, tol) == diff < tol

\* abs(diff) < tol
Converges(diff, tol) == Abs(diff) < tol

\* abs(vega) < 1e-8
LowVega(vega) == Abs(vega) < VegaMin

\* diff / vega in volatility units, truncated; saturated at twice SigmaCap.
NewtonStep(diff, vega) ==
    LET a   == Abs(diff)
        b   == Abs(vega)
        mag == IF a \div b >= 2 * (SigmaCap \div VolOne) THEN 2 * SigmaCap
               ELSE MulDiv(a, VolOne, b)
    IN  IF (diff >= 0) = (vega >= 0) THEN mag ELSE -mag

\* if sigma <= 0.0: sigma = 1e-6
Clamp(sigma) == IF sigma <= 0 THEN SigmaFloor ELSE sigma

\* sigma -= diff / vega, then the clamp (and the model's cap).
NewtonUpdate(sigma, diff, vega) ==
    LET next == Clamp(sigma - NewtonStep(diff, vega))
    IN  IF next > SigmaCap THEN SigmaCap ELSE next

\* (the iteration writes to the option's own vol object)
AllocEQVolShared(o, vs) == o.vol

\* tmp_vol = EQVol(...): the identity of the volatility object an iteration
\* writes to, a new object.
AllocEQVol(o, vs) == Len(vs) + 1

\* vs with object id set to v (appended when id is new).
Store(vs, id, v) == IF id = Len(vs) + 1 THEN Append(vs, v) ELSE [vs EXCEPT ![id] = v]

\* No Option.price / Option.vega call made yet; no stateless operation called yet.
NoPx == [op |-> None]
NoRes == [op |-> None]

\* ------------------------------------------------------------ state machine
Init ==
    /\ opt \in {NewEQOption(e, otype, style, engine) :
                   e \in Economics, otype \in {"call", "put"},
                   style \in {"European", "American"}, engine \in {"default", "mc"}}
    /\ vols = <<BaseVol>>
    /\ models = <<>>
    /\ evalDate \in Dates
    /\ call = IdleCall
    /\ px = NoPx
    /\ res = NoRes

\* EQOption.set_market(spot=, ir_curve=, div_curve=, vol=): the arguments that
\* are given replace the option's, then a default model is bound if none is.
set_market(spot, ir_curve, div_curve, vol) ==
    /\ call.pc = "Idle"
    /\ LET o1 == [opt EXCEPT
                    !.spot = IF spot # NoSpot THEN spot ELSE @,
                    !.ir_curve = IF ir_curve # None THEN ir_curve ELSE @,
                    !.div_curve = IF div_curve # None THEN div_curve ELSE @,
                    !.vol = IF vol # Null THEN vol ELSE @]
           b  == BindDefault(o1, models)
       IN  /\ opt' = b[1]
           /\ models' = b[2]
    /\ UNCHANGED <<vols, evalDate, call, px, res>>

\* Calendar.set_evaluation_date
set_evaluation_date(d) ==
    /\ call.pc = "Idle"
    /\ d # evalDate
    /\ evalDate' = d
    /\ UNCHANGED <<opt, vols, models, call, px, res>>

\* The target prices a caller passes: quotes, and (sigma_true given) the price
\* of the option itself under a model whose vol is flat at sigma_true.
QuotedTargets == {-PriceOne, 0, 64000000}
TrueVols == {200000, 250000}
InitialVols == {DefaultInitialVol, 250000, 300000}
Tols == {DefaultTol, 20000000}

RoundTripPrice(o, sigma_true, reference_date, today) ==
    ModelPrice(NewModel(o.spot, o.ir_curve, o.div_curve, 1),
               o, <<set_flat_vol(NewEQVol("USD"), sigma_true, reference_date)>>, today)

\* EQOption.implied_vol up to the loop: validate_market, the engine check and
\* sigma = float(initial_vol).
implied_vol(target_price, sigma_true, reference_date, initial_vol, tol, max_iter) ==
    /\ call.pc = "Idle"
    /\ call' =
         IF MissingMarket(opt) # {}
         THEN [IdleCall EXCEPT !.pc = "Failed", !.err = "MissingMarket",
                               !.pre = Snapshot(opt, vols, models)]
         ELSE IF Engine(opt) # "bs_analytic"
         THEN [IdleCall EXCEPT !.pc = "Failed", !.err = "UnsupportedEngine",
                               !.pre = Snapshot(opt, vols, models)]
         ELSE [IdleCall EXCEPT !.pc = "Iterating", !.target_price = target_price,
                               !.reference_date = reference_date, !.tol = tol,
                               !.max_iter = max_iter, !.sigma = initial_vol,
                               !.sigma_true = sigma_true,
                               !.pre = Snapshot(opt, vols, models)]
    /\ UNCHANGED <<opt, vols, models, evalDate, px, res>>

ImpliedVolCall ==
    \E reference_date \in Dates, initial_vol \in InitialVols, tol \in Tols,
       max_iter \in 0..MaxIterArg :
        \/ \E t \in QuotedTargets :
              implied_vol(t, 0, reference_date, initial_vol, tol, max_iter)
        \/ \E st \in TrueVols :
              /\ MissingMarket(opt) = {}
              /\ RoundTripPrice(opt, st, reference_date, evalDate).ok
              /\ implied_vol(RoundTripPrice(opt, st, reference_date, evalDate).val,
                             st, reference_date, initial_vol, tol, max_iter)

\* One pass of the loop body.
Iterate ==
    /\ call.pc = "Iterating"
    /\ LoopContinues(call.iter, call.max_iter)
    /\ LET id        == AllocEQVol(opt, vols)
           tmp_vol   == set_flat_vol(NewEQVol(vols[opt.vol].currency),
                                     call.sigma, call.reference_date)
           vs        == Store(vols, id, tmp_vol)
           tmp_model == NewModel(opt.spot, opt.ir_curve, opt.div_curve, id)
           p         == ModelPrice(tmp_model, opt, vs, evalDate)
           diff      == p.val - call.target_price
           v         == ModelVega(tmp_model, opt, vs, evalDate)
           c1        == [call EXCEPT !.iter = @ + 1]
           c2        == [c1 EXCEPT !.priceEvals = @ + 1, !.price = p.val,
                                   !.priced = call.sigma]
           c3        == [c2 EXCEPT !.vegaEvals = @ + 1, !.vega = v.val]
       IN  /\ vols' = vs
           /\ models' = Append(models, tmp_model)
           /\ call' =
                IF ~p.ok THEN [c1 EXCEPT !.pc = "Failed", !.err = p.err]
                ELSE IF Converges(diff, call.tol)
                THEN [c2 EXCEPT !.pc = "Converged", !.ret = call.sigma]
                ELSE IF ~v.ok THEN [c2 EXCEPT !.pc = "Failed", !.err = v.err]
                ELSE IF LowVega(v.val) THEN [c3 EXCEPT !.pc = "Failed", !.err = "LowVega"]
                ELSE [c3 EXCEPT !.sigma = NewtonUpdate(call.sigma, diff, v.val)]
    /\ UNCHANGED <<opt, evalDate, px, res>>

\* The loop ran out: raise RuntimeError("Implied vol solver failed to converge").
Exhaust ==
    /\ call.pc = "Iterating"
    /\ ~LoopContinues(call.iter, call.max_iter)
    /\ call' = [call EXCEPT !.pc = "Failed", !.err = "NonConvergence"]
    /\ UNCHANGED <<opt, vols, models, evalDate, px, res>>

\* The call is over: the caller has the value or the exception, and the
\* objects only the call referred to are gone.
Finish ==
    /\ call.pc \in {"Converged", "Failed"}
    /\ call' = IdleCall
    /\ vols' = SubSeq(vols, 1, call.pre.nvols)
    /\ models' = SubSeq(models, 1, call.pre.nmodels)
    /\ UNCHANGED <<opt, evalDate, px, res>>

SetMarket ==
    \E spot \in Spots \cup {NoSpot}, ir_curve \in {"ir", None},
       div_curve \in {"div", None}, vol \in {1, Null} :
        set_market(spot, ir_curve, div_curve, vol)

SetEvaluationDate == \E d \in Dates : set_evaluation_date(d)

Next ==
    \/ SetMarket
    \/ SetEvaluationDate
    \/ ImpliedVolCall
    \/ Iterate
    \/ Exhaust
    \/ Finish

Spec == Init /\ [][Next]_vars

\* The loop is run to its end: a call in progress is not abandoned.
LiveSpec == Spec /\ WF_vars(Iterate) /\ WF_vars(Exhaust)

\* ------------------------------------------------------------ properties
Ended == call.pc \in {"Converged", "Failed"}

\* The call got past validate_market and the engine check: it reached the loop.
ReachedLoop == call.pc # "Idle" /\ call.err \notin {"MissingMarket", "UnsupportedEngine"}

\* The option of the call is European, not expired on the ambient date, and
\* matures after the reference date.
Priceable ==
    /\ opt.style = "European"
    /\ opt.maturity_date > call.reference_date
    /\ opt.maturity_date > evalDate

\* The term structure the last iteration priced with.
LastTS == [kind |-> "flat", sigma |-> call.priced, ref |-> call.reference_date]

\* The vega QuantLib reports for the option at the volatility last priced.
LastTrueVega == QlVega(opt, opt.spot, LastTS, evalDate).val

\* The call is just past an iteration that priced the option (for a positive
\* target) and did not meet the tolerance.
LastIterationOpen ==
    /\ ReachedLoop /\ Priceable /\ call.target_price > 0
    /\ call.err # "NonConvergence"
    /\ call.iter >= 1 /\ call.priceEvals = call.iter
    /\ ~Converges(call.price - call.target_price, call.tol)

\* C1: a call with max_iter = N makes at most N price evaluations and at most N
\* vega evaluations, runs at most N iterations, and a call that reached the loop
\* ends, Converged or Failed.
C1_BoundedAndEnds ==
    /\ [](/\ call.priceEvals <= call.max_iter
          /\ call.vegaEvals <= call.max_iter
          /\ call.iter <= call.max_iter)
    /\ (call.pc = "Iterating" ~> Ended)

C1_Witness == Ended /\ call.max_iter = 1 /\ call.priceEvals = 1

\* C2: a call with target_price <= 0 fails with the invalid-target error
\* before the first iteration: nothing is built and no price is evaluated.
C2_InvalidTargetBeforeIteration ==
    (ReachedLoop /\ Ended /\ call.max_iter >= 1 /\ call.target_price <= 0)
        => /\ call.pc = "Failed" /\ call.err = "InvalidTarget"
           /\ call.iter = 0 /\ call.priceEvals = 0
           /\ Len(vols) = call.pre.nvols /\ Len(models) = call.pre.nmodels

\* C3: a call for an option whose maturity is on or before the reference date
\* fails with the invalid-expiry error before the first iteration.
C3_InvalidExpiryBeforeIteration ==
    (/\ ReachedLoop /\ Ended /\ call.max_iter >= 1 /\ call.target_price > 0
     /\ opt.maturity_date <= call.reference_date)
        => /\ call.pc = "Failed" /\ call.err = "InvalidExpiry"
           /\ call.iter = 0 /\ call.priceEvals = 0

\* C4: the value returned is the volatility priced in the returning iteration,
\* that iteration's price is within tol of the target, and the iteration
\* returned before any vega evaluation or update of sigma.
C4_ReturnsPricedSigma ==
    call.pc = "Converged"
        => /\ call.ret = call.priced
           /\ call.sigma = call.ret
           /\ call.price = NPV(opt, opt.spot, LastTS, evalDate).val
           /\ Abs(call.price - call.target_price) < call.tol
           /\ call.priceEvals = call.iter
           /\ call.vegaEvals < call.iter

C4_Witness == call.pc = "Converged" /\ call.target_price > 0 /\ call.iter = 1

\* C5: an iteration that has not converged and whose vega is below 1e-8 ends
\* the call with the low-vega error, sigma not updated.
C5_LowVegaFails ==
    (LastIterationOpen /\ LowVega(LastTrueVega))
        => /\ call.pc = "Failed" /\ call.err = "LowVega"
           /\ call.sigma = call.priced

\* C6: an iteration that has not converged and whose vega is not low sets
\* sigma to sigma - diff/vega, floored at 1e-6 when that is <= 0, and the search
\* goes on with a positive sigma.
C6_NewtonUpdateClamped ==
    (LastIterationOpen /\ ~LowVega(LastTrueVega))
        => /\ call.pc = "Iterating"
           /\ call.sigma = NewtonUpdate(call.priced, call.price - call.target_price,
                                        LastTrueVega)
           /\ call.sigma > 0

\* C7: a call in which no iteration converges and none hits low vega fails with
\* the non-convergence error after exactly max_iter iterations.
C7_NonConvergenceAfterMaxIter ==
    (/\ ReachedLoop /\ Priceable /\ call.target_price > 0 /\ call.pc = "Failed"
     /\ (call.iter >= 1 => ~LowVega(LastTrueVega)))
        => /\ call.err = "NonConvergence"
           /\ call.iter = call.max_iter
           /\ call.priceEvals = call.max_iter

\* C8: for a European option with all market inputs set, a positive target
\* and positive time to expiry, the vega step succeeds, so a call ends
\* Converged, with the low-vega failure or with the non-convergence failure.
C8_OnlyThreeOutcomes ==
    (ReachedLoop /\ Priceable /\ Ended /\ call.target_price > 0)
        => \/ call.pc = "Converged"
           \/ call.err \in {"LowVega", "NonConvergence"}

\* C9: every iteration builds a new EQVol and a new model, and the option's
\* spot, curves, vol object (with the term structure it is linked to), bound
\* model and pricing_engine are, during and at the end of the call, what they
\* were before it.
C9_FrameOfImpliedVol ==
    call.pc # "Idle"
        => /\ opt = call.pre.opt
           /\ Snapshot(opt, vols, models).vol = call.pre.vol
           /\ Snapshot(opt, vols, models).model = call.pre.model
           /\ Len(vols) = call.pre.nvols + call.iter
           /\ Len(models) = call.pre.nmodels + call.iter

C9_Witness ==
    /\ call.pc = "Failed" /\ call.iter >= 1 /\ opt.model # Null
    /\ call.reference_date # 0 /\ call.sigma # DefaultInitialVol

\* C10: with the target the model's own price at sigma_true, the default
\* tolerance and a valid option of non-negligible vega, the call returns
\* sigma_true to within the tolerance, whatever the initial guess.
C10_RoundTrip ==
    (/\ ReachedLoop /\ Priceable /\ Ended
     /\ call.sigma_true # 0 /\ call.tol = DefaultTol /\ call.max_iter = MaxIterArg
     /\ ~LowVega(QlVega(opt, opt.spot, [LastTS EXCEPT !.sigma = call.sigma_true], evalDate).val))
        => /\ call.pc = "Converged"
           /\ Abs(call.ret - call.sigma_true) <= 1


\* ------------------------------------------------------------ Option pricing API
\* Largest number of model objects alive at once.
MaxModels == 2

\* The market-input names the text of the "No pricing model available"
\* ValueError mentions: none.
NoModelMessageNames == {}

\* (the bound model takes precedence over the argument)
ResolveModelBoundFirst(model, o, ms) ==
    IF o.model # Null \/ model # Null
    THEN [mdl |-> IF o.model # Null THEN o.model ELSE model, o |-> o, ms |-> ms,
          built |-> FALSE, err |-> None]
    ELSE [mdl |-> Null, o |-> o, ms |-> ms, built |-> FALSE, err |-> "NoModel"]

\* (a default model that was built is returned without being stored)
ResolveModelUnbound(model, o, ms) ==
    IF model # Null \/ o.model # Null
    THEN [mdl |-> IF model # Null THEN model ELSE o.model, o |-> o, ms |-> ms,
          built |-> FALSE, err |-> None]
    ELSE LET o1 == [o EXCEPT !.pricing_engine = Engine(o)]
         IN  IF MaybeBuildDefaultModel(o) # NoModel
             THEN [mdl |-> Len(ms) + 1, o |-> o1,
                   ms |-> Append(ms, MaybeBuildDefaultModel(o)),
                   built |-> TRUE, err |-> None]
             ELSE [mdl |-> Null, o |-> o1, ms |-> ms, built |-> FALSE,
                   err |-> "NoModel"]

\* Option._resolve_model(model): mdl = model or self.model; with neither, the
\* default model is built and bound when it can be, else ValueError.  mdl is the
\* identity of the model resolved, o and ms the option and the models after.
ResolveModel(model, o, ms) ==
    IF model # Null \/ o.model # Null
    THEN [mdl |-> IF model # Null THEN model ELSE o.model, o |-> o, ms |-> ms,
          built |-> FALSE, err |-> None]
    ELSE LET o1 == [o EXCEPT !.pricing_engine = Engine(o)]
         IN  IF MaybeBuildDefaultModel(o) # NoModel
             THEN [mdl |-> Len(ms) + 1, o |-> [o1 EXCEPT !.model = Len(ms) + 1],
                   ms |-> Append(ms, MaybeBuildDefaultModel(o)),
                   built |-> TRUE, err |-> None]
             ELSE [mdl |-> Null, o |-> o1, ms |-> ms, built |-> FALSE,
                   err |-> "NoModel"]

\* Option.vega on a resolved model: mdl.vega when the model has it, else the
\* "vega" entry of greeks().
OptionVegaValue(m, o, vs, today) ==
    IF "vega" \in BlackScholesAnalyticEQModelMethods THEN ModelVega(m, o, vs, today)
    ELSE IF "greeks" \in BlackScholesAnalyticEQModelMethods
    THEN ModelGreeksVega(m, o, vs, today)
    ELSE Raise("AttributeError")

\* The record of a call op(model=model) made on option o with models ms alive.
PricingCall(op, model, o, ms, vs, today) ==
    LET r == ResolveModel(model, o, ms)
    IN  [op |-> op, arg |-> model, bound |-> o.model, pre |-> o,
         used |-> r.mdl, built |-> r.built,
         model |-> IF r.mdl = Null THEN NoModel ELSE r.ms[r.mdl],
         payoff_built |-> r.mdl # Null /\ BuildQlOption(r.o).ok,
         names |-> IF r.err = "NoModel" THEN NoModelMessageNames ELSE {},
         out |-> IF r.err # None THEN Raise(r.err)
                 ELSE IF op = "price" THEN ModelPrice(r.ms[r.mdl], r.o, vs, today)
                 ELSE OptionVegaValue(r.ms[r.mdl], r.o, vs, today)]

\* Option.price(model=...) / Option.vega(model=...)
OptionCall(op, model) ==
    /\ call.pc = "Idle"
    /\ LET r == ResolveModel(model, opt, models)
       IN  /\ Len(r.ms) <= MaxModels
           /\ opt' = r.o
           /\ models' = r.ms
    /\ px' = PricingCall(op, model, opt, models, vols, evalDate)
    /\ UNCHANGED <<vols, evalDate, call, res>>

\* Option.set_pricing_engine(pricing_engine): the name is stored lower-cased
\* (the names drawn are lower case) and the bound model cleared.
set_pricing_engine(pricing_engine) ==
    /\ call.pc = "Idle"
    /\ opt' = [opt EXCEPT !.pricing_engine = pricing_engine, !.model = Null]
    /\ UNCHANGED <<vols, models, evalDate, call, px, res>>

\* BlackScholesAnalyticEQModel(spot=, ir_curve=, div_curve=, vol=) constructed
\* by the caller, to pass as model=...
construct_model(spot, ir_curve, div_curve, vol) ==
    /\ call.pc = "Idle"
    /\ Len(models) < MaxModels
    /\ models' = Append(models, NewModel(spot, ir_curve, div_curve, vol))
    /\ UNCHANGED <<opt, vols, evalDate, call, px, res>>

\* BlackScholesAnalyticEQModel.set_spot(new_spot) on model id:
\* self._spot_quote.setValue(float(new_spot))
set_spot(id, new_spot) ==
    /\ call.pc = "Idle"
    /\ models[id].quote # new_spot
    /\ models' = [models EXCEPT ![id].quote = new_spot]
    /\ UNCHANGED <<opt, vols, evalDate, call, px, res>>

\* The spots a caller quotes.
QuotedSpots == {10, 12}

\* The half-year option, call or put, of either style and engine, with no
\* market input, on day 0.
OptionInit ==
    /\ opt \in {NewEQOption([strike |-> 10, maturity_date |-> 182], otype, style, engine) :
                   otype \in {"call", "put"},
                   style \in {"European", "American"}, engine \in {"default", "mc"}}
    /\ vols = <<BaseVol>>
    /\ models = <<>>
    /\ evalDate = 0
    /\ call = IdleCall
    /\ px = NoPx
    /\ res = NoRes

\* The caller acts between calls: px holds a call's record until the caller
\* has taken its result (OptionReturn).
OptionSetMarket ==
    \E spot \in QuotedSpots \cup {NoSpot}, ir_curve \in {"ir", None},
       div_curve \in {"div", None}, vol \in {1, Null} :
        /\ px = NoPx
        /\ Len(models) < MaxModels
        /\ set_market(spot, ir_curve, div_curve, vol)

SetPricingEngine ==
    \E pe \in {"bs_analytic", "mc"} :
        /\ px = NoPx
        /\ pe # opt.pricing_engine \/ opt.model # Null
        /\ set_pricing_engine(pe)

ConstructModel == px = NoPx /\ construct_model(12, "ir", "div", 1)

ModelSetSpot ==
    \E id \in 1..Len(models), new_spot \in QuotedSpots :
        px = NoPx /\ set_spot(id, new_spot)

OptionPrice ==
    \E model \in {Null} \cup (1..Len(models)) : px = NoPx /\ OptionCall("price", model)

OptionVega ==
    \E model \in {Null} \cup (1..Len(models)) : px = NoPx /\ OptionCall("vega", model)

OptionReturn ==
    /\ px # NoPx
    /\ px' = NoPx
    /\ UNCHANGED <<opt, vols, models, evalDate, call, res>>

OptionNext ==
    \/ OptionSetMarket
    \/ SetPricingEngine
    \/ ConstructModel
    \/ ModelSetSpot
    \/ OptionPrice
    \/ OptionVega
    \/ OptionReturn

OptionSpec == OptionInit /\ [][OptionNext]_vars

\* A pricing call has just been made.
Called == px # NoPx

\* C11: a pricing call uses the explicit model argument when one is given,
\* otherwise the model bound on the option, otherwise a default model built
\* from the option's market inputs as they are at the call and bound on the
\* option; no model is built when an explicit or a bound model exists.
C11_ResolutionPriority ==
    Called =>
        /\ px.arg # Null => (px.used = px.arg /\ ~px.built)
        /\ (px.arg = Null /\ px.bound # Null) => (px.used = px.bound /\ ~px.built)
        /\ (px.arg = Null /\ px.bound = Null) =>
              \/ /\ px.built
                 /\ px.used = Len(models)
                 /\ opt.model = px.used
                 /\ models[px.used] = NewModel(px.pre.spot, px.pre.ir_curve,
                                               px.pre.div_curve, px.pre.vol)
              \/ /\ ~px.built
                 /\ px.used = Null
                 /\ px.out.err = "NoModel"
        /\ px.used # Null => px.model = models[px.used]

\* An explicit model was passed to an option that has another model bound, and
\* the call returned a value.
C11_Witness ==
    Called /\ px.arg # Null /\ px.bound # Null /\ px.arg # px.bound /\ px.out.ok

\* C12: a pricing call with no explicit model and no bound model on an option
\* with a market input unset fails with an error that names exactly the inputs
\* that are unset.
C12_MissingModelNamesAbsentInputs ==
    (Called /\ px.arg = Null /\ px.bound = Null /\ MissingMarket(px.pre) # {})
        => /\ ~px.out.ok
           /\ px.out.err = "NoModel"
           /\ px.names = MissingMarket(px.pre)

\* C13: the model a pricing call without an explicit model uses holds the
\* option's current spot, ir_curve, div_curve and vol.
C13_BoundModelIsCurrent ==
    (Called /\ px.arg = Null /\ px.used # Null)
        => /\ px.model.spot = px.pre.spot
           /\ px.model.ir_curve = px.pre.ir_curve
           /\ px.model.div_curve = px.pre.div_curve
           /\ px.model.vol = px.pre.vol

\* C14: every model object prices from the spot it was constructed with.
C14_ModelImmutable ==
    \A i \in 1..Len(models) : models[i].quote = models[i].spot

\* C15: a pricing call that reaches a model with an option whose style is not
\* European fails with the unsupported-style error, no payoff or exercise
\* built and no value returned.
C15_UnsupportedStyleFirst ==
    (Called /\ px.used # Null /\ px.pre.style # "European")
        => /\ ~px.out.ok
           /\ px.out.err = "UnsupportedStyle"
           /\ ~px.payoff_built

\* An American option with a model was priced and got the unsupported-style error.
C15_Witness ==
    /\ Called /\ px.used # Null /\ px.pre.style = "American"
    /\ px.out.err = "UnsupportedStyle"

\* ------------------------------------------------------------ dates
\* A calendar date is [y, m, d]; NoDate is None where a date is expected.
NoDate == [y |-> 0, m |-> 0, d |-> 0]

\* datetime.date(y, m, d).toordinal() up to a constant: the day number of a
\* date of the proleptic Gregorian calendar.
DayNumber(dt) ==
    LET y   == IF dt.m <= 2 THEN dt.y - 1 ELSE dt.y
        era == y \div 400
        yoe == y - era * 400
        mp  == IF dt.m > 2 THEN dt.m - 3 ELSE dt.m + 9
        doy == (153 * mp + 2) \div 5 + dt.d - 1
        doe == yoe * 365 + yoe \div 4 - yoe \div 100 + doy
    IN  era * 146097 + doe

\* f"{n:0{w}d}": the w decimal digits of n, most significant first.
Digits(n, w) == [i \in 1..w |-> (n \div (10 ^ (w - i))) % 10]

\* int() of a string of decimal digits.
RECURSIVE DigitsValue(_)
DigitsValue(ds) ==
    IF Len(ds) = 0 THEN 0
    ELSE 10 * DigitsValue(SubSeq(ds, 1, Len(ds) - 1)) + ds[Len(ds)]

\* _to_ymd of a date object: the fields of the string "YYYY-MM-DD".
ToYmd(dt) == [y |-> Digits(dt.y, 4), m |-> Digits(dt.m, 2), d |-> Digits(dt.d, 2)]

\* A year fraction is num/den with den > 0.
Fraction(num, den) == [num |-> num, den |-> den]

\* _year_fraction_act365(start, end): the dates are formatted, parsed back,
\* subtracted, and the day count over 365 is clamped at 0.
YearFractionAct365(start, end) ==
    LET s    == ToYmd(start)
        e    == ToYmd(end)
        d0   == [y |-> DigitsValue(s.y), m |-> DigitsValue(s.m), d |-> DigitsValue(s.d)]
        d1   == [y |-> DigitsValue(e.y), m |-> DigitsValue(e.m), d |-> DigitsValue(e.d)]
        days == DayNumber(d1) - DayNumber(d0)
    IN  Fraction(Max(0, days), 365)

\* ------------------------------------------------------------ the FX model
(***************************************************************************)
(* GarmanKohlhagenAnalyticFXModel.  Rates are integers in basis points,    *)
(* volatilities in units of 1e-6, values in units of 1e-8, and the time to *)
(* expiry t is a day count over 365.  An optional number is                *)
(* [some, v]: a curve or a vol given as a plain float, or None.            *)
(***************************************************************************)
Some(x) == [some |-> TRUE, v |-> x]
Nothing == [some |-> FALSE, v |-> 0]

\* a or None, as the operand of `or`: None and 0.0 are false.
Truthy(x) == x.some /\ x.v # 0

\* _get_curve_rate(curve, t): 0.0 for None, else float(curve).
GetCurveRate(curve) == IF ~curve.some THEN Value(0) ELSE Value(curve.v)

\* _get_vol(vol): ValueError("vol is required") for None, else float(vol).
GetVol(vol) == IF ~vol.some THEN Raise("MissingVol") ELSE Value(vol.v)

\* (the comparison is strict)
Negative(x) == x < 0

\* x <= 0.0
NonPositive(x) == x <= 0

\* _GKInputs before any input is read.
NoInputs == [s |-> 0, k |-> 0, t |-> 0, rd |-> 0, rf |-> 0, sigma |-> 0, is_call |-> FALSE]

\* _inputs(option, reference_date=): [ok, err, inp].  The option is an FXOption:
\* it has no reference_date, valuation_date or year_fraction attribute, and its
\* curves are domestic_curve and foreign_curve.
GKInputs(o, reference_date) ==
    LET t        == YearFractionAct365(reference_date, o.maturity_date).num
        rd_curve == IF Truthy(o.domestic_curve) THEN o.domestic_curve ELSE Nothing
        rf_curve == IF Truthy(o.foreign_curve) THEN o.foreign_curve ELSE Nothing
        vol_obj  == IF Truthy(o.vol) THEN o.vol ELSE Nothing
        sigma    == GetVol(vol_obj)
        fail(e)  == [ok |-> FALSE, err |-> e, inp |-> NoInputs]
    IN  IF o.spot = NoSpot THEN fail("TypeError")
        ELSE IF o.maturity_date = NoDate THEN fail("MissingMaturityDate")
        ELSE IF reference_date = NoDate THEN fail("MissingReferenceDate")
        ELSE IF NonPositive(t) THEN fail("NonPositiveTime")
        ELSE IF ~sigma.ok THEN fail(sigma.err)
        ELSE IF NonPositive(sigma.val) THEN fail("NonPositiveVol")
        ELSE [ok |-> TRUE, err |-> None,
              inp |-> [s |-> o.spot, k |-> o.strike, t |-> t,
                       rd |-> GetCurveRate(rd_curve).val,
                       rf |-> GetCurveRate(rf_curve).val,
                       sigma |-> sigma.val, is_call |-> o.option_type = "call"]]

\* st = sigma * math.sqrt(t), up to a positive factor: zero when t is, else of
\* the sign of sigma.
SigmaSqrtT(inp) == IF inp.t = 0 THEN 0 ELSE inp.sigma

\* The values of the closed formulas at the inputs drawn (spot 10, strike 10).
GKTable(inp) ==
    CASE inp.t = 182 /\ inp.rd = 300 /\ inp.rf = 100 
           /\ inp.sigma = 200000 ->
           [price_call |-> 60812422, price_put |-> 50938736, delta_call |-> 55338863,
            delta_put |-> -44163748, vega |-> 277525413, gamma |-> 27828785]
      [] inp.t = 182 /\ inp.rd = 300 /\ inp.rf = 100 
           /\ inp.sigma = 250000 ->
           [price_call |-> 74686242, price_put |-> 64812557, delta_call |-> 55477591,
            delta_put |-> -44025020, vega |-> 277385336, gamma |-> 22251791]
      [] inp.t = 182 /\ inp.rd = 300 /\ inp.rf = 0 
           /\ inp.sigma = 200000 ->
           [price_call |-> 63613325, price_put |-> 48765749, delta_call |-> 57006293,
            delta_put |-> -42993707, vega |-> 277352489, gamma |-> 27811445]
      [] inp.t = 182 /\ inp.rd = 300 /\ inp.rf = 0 
           /\ inp.sigma = 250000 ->
           [price_call |-> 77487145, price_put |-> 62639570, delta_call |-> 56867573,
            delta_put |-> -43132427, vega |-> 277523684, gamma |-> 22262889]
      [] inp.t = 182 /\ inp.rd = 0 /\ inp.rf = 100 
           /\ inp.sigma = 200000 ->
           [price_call |-> 53702823, price_put |-> 58676713, delta_call |-> 51152549,
            delta_put |-> -48350062, vega |-> 280132253, gamma |-> 28090185]
      [] inp.t = 182 /\ inp.rd = 0 /\ inp.rf = 100 
           /\ inp.sigma = 250000 ->
           [price_call |-> 67701727, price_put |-> 72675617, delta_call |-> 52132484,
            delta_put |-> -47370127, vega |-> 279802448, gamma |-> 22445691]
      [] inp.t = 182 /\ inp.rd = 0 /\ inp.rf = 0 
           /\ inp.sigma = 200000 ->
           [price_call |-> 56294831, price_put |-> 56294831, delta_call |-> 52814742,
            delta_put |-> -47185258, vega |-> 281006630, gamma |-> 28177863]
      [] inp.t = 182 /\ inp.rd = 0 /\ inp.rf = 0 
           /\ inp.sigma = 250000 ->
           [price_call |-> 70335680, price_put |-> 70335680, delta_call |-> 53516784,
            delta_put |-> -46483216, vega |-> 280612823, gamma |-> 22510699]
      [] inp.t = 182 /\ inp.rd = 400 /\ inp.rf = 100
           /\ inp.sigma = 200000 ->
           [price_call |-> 63296919, price_put |-> 48523194, delta_call |-> 56722749,
            delta_put |-> -42779862, vega |-> 275972968, gamma |-> 27673114]
      [] inp.t = 182 /\ inp.rd = 400 /\ inp.rf = 100
           /\ inp.sigma = 250000 ->
           [price_call |-> 77101733, price_put |-> 62328007, delta_call |-> 56584720,
            delta_put |-> -42917891, vega |-> 276143311, gamma |-> 22152156]
      [] inp.t = 182 /\ inp.rd = 400 /\ inp.rf = 100
           /\ inp.sigma = 500000 ->
           [price_call |-> 145903559, price_put |-> 131129833, delta_call |-> 58371918,
            delta_put |-> -41130693, vega |-> 273670802, gamma |-> 10976906]
      [] inp.t = 182 /\ inp.rd = 400 /\ inp.rf = 0
           /\ inp.sigma = 200000 ->
           [price_call |-> 66166791, price_put |-> 46419175, delta_call |-> 58388455,
            delta_put |-> -41611545, vega |-> 275457419, gamma |-> 27621417]
      [] inp.t = 182 /\ inp.rd = 400 /\ inp.rf = 0
           /\ inp.sigma = 250000 ->
           [price_call |-> 79957847, price_put |-> 60210231, delta_call |-> 57974813,
            delta_put |-> -42025187, vega |-> 276060707, gamma |-> 22145529]
      [] inp.t = 182 /\ inp.rd = 400 /\ inp.rf = 0
           /\ inp.sigma = 500000 ->
           [price_call |-> 148835104, price_put |-> 129087489, delta_call |-> 59212915,
            delta_put |-> -40787085, vega |-> 274162501, gamma |-> 10996628]
      [] inp.t = 182 /\ inp.rd = 300 /\ inp.rf = 100
           /\ inp.sigma = 500000 ->
           [price_call |-> 143728709, price_put |-> 133855024, delta_call |-> 57823748,
            delta_put |-> -41678863, vega |-> 274490791, gamma |-> 11009795]
      [] inp.t = 182 /\ inp.rd = 300 /\ inp.rf = 0
           /\ inp.sigma = 500000 ->
           [price_call |-> 146632895, price_put |-> 131785319, delta_call |-> 58663705,
            delta_put |-> -41336295, vega |-> 275038815, gamma |-> 11031777]
      [] inp.t = 182 /\ inp.rd = 200 /\ inp.rf = 100
           /\ inp.sigma = 200000 ->
           [price_call |-> 58384862, price_put |-> 53435711, delta_call |-> 53948060,
            delta_put |-> -45554551, vega |-> 278738906, gamma |-> 27950467]
      [] inp.t = 182 /\ inp.rd = 200 /\ inp.rf = 100
           /\ inp.sigma = 250000 ->
           [price_call |-> 72314137, price_put |-> 67364986, delta_call |-> 54365926,
            delta_put |-> -45136685, vega |-> 278410741, gamma |-> 22334048]
      [] inp.t = 182 /\ inp.rd = 200 /\ inp.rf = 100
           /\ inp.sigma = 500000 ->
           [price_call |-> 141570429, price_put |-> 136621279, delta_call |-> 57273990,
            delta_put |-> -42228621, vega |-> 275258331, gamma |-> 11040581]
      [] inp.t = 182 /\ inp.rd = 200 /\ inp.rf = 0
           /\ inp.sigma = 200000 ->
           [price_call |-> 61116408, price_put |-> 51193367, delta_call |-> 55615489,
            delta_put |-> -44384511, vega |-> 278912694, gamma |-> 27967894]
      [] inp.t = 182 /\ inp.rd = 200 /\ inp.rf = 0
           /\ inp.sigma = 250000 ->
           [price_call |-> 75059580, price_put |-> 65136539, delta_call |-> 55754910,
            delta_put |-> -44245090, vega |-> 278771917, gamma |-> 22363022]
      [] inp.t = 182 /\ inp.rd = 200 /\ inp.rf = 0
           /\ inp.sigma = 500000 ->
           [price_call |-> 144447173, price_put |-> 134524132, delta_call |-> 58112794,
            delta_put |-> -41887206, vega |-> 275862903, gamma |-> 11064831]
      [] inp.t = 182 /\ inp.rd = 0 /\ inp.rf = 100
           /\ inp.sigma = 500000 ->
           [price_call |-> 137304215, price_put |-> 142278105, delta_call |-> 56170133,
            delta_put |-> -43332478, vega |-> 276634280, gamma |-> 11095771]
      [] inp.t = 182 /\ inp.rd = 0 /\ inp.rf = 0
           /\ inp.sigma = 500000 ->
           [price_call |-> 140125850, price_put |-> 140125850, delta_call |-> 57006293,
            delta_put |-> -42993707, vega |-> 277352489, gamma |-> 11124578]

\* (the put formula returned for calls and the call formula for puts)
GKValueSwapped(op, inp) ==
    LET row == GKTable(inp)
    IN  CASE op = "price" -> IF inp.is_call THEN row.price_put ELSE row.price_call
          [] op = "delta" -> IF inp.is_call THEN row.delta_put ELSE row.delta_call
          [] op = "vega" -> row.vega
          [] op = "gamma" -> row.gamma

\* price / delta / vega / gamma from d1, d2 and the discount factors.
GKValue(op, inp) ==
    LET row == GKTable(inp)
    IN  CASE op = "price" -> IF inp.is_call THEN row.price_call ELSE row.price_put
          [] op = "delta" -> IF inp.is_call THEN row.delta_call ELSE row.delta_put
          [] op = "vega" -> row.vega
          [] op = "gamma" -> row.gamma

\* The public operations of the model.
FXOps == {"price", "delta", "vega", "gamma"}

\* model.op(option, reference_date=reference_date): _inputs, then _d1_d2 (which
\* raises when st <= 0 and divides by st otherwise), then the formula.
\* divided tells whether the division by sigma*sqrt(T) was evaluated.
GKCall(op, o, reference_date) ==
    LET i    == GKInputs(o, reference_date)
        base == [op |-> op, option |-> o, reference_date |-> reference_date,
                 inp |-> i.inp, divided |-> FALSE, out |-> Raise(i.err)]
    IN  IF ~i.ok THEN base
        ELSE IF NonPositive(SigmaSqrtT(i.inp))
        THEN [base EXCEPT !.out = Raise("NonPositiveSigmaSqrtT")]
        ELSE IF SigmaSqrtT(i.inp) = 0
        THEN [base EXCEPT !.divided = TRUE, !.out = Raise("ZeroDivisionError")]
        ELSE [base EXCEPT !.divided = TRUE, !.out = Value(GKValue(op, i.inp))]

\* FXOption(spot=, strike=10, maturity_date=, option_type=, domestic_curve=,
\* foreign_curve=, vol=)
NewFXOption(spot, maturity_date, option_type, domestic_curve, foreign_curve, vol) ==
    [spot |-> spot, strike |-> 10, maturity_date |-> maturity_date,
     option_type |-> option_type, domestic_curve |-> domestic_curve,
     foreign_curve |-> foreign_curve, vol |-> vol]

\* The inputs drawn: a maturity half a year (182 days) after the first
\* reference date, reference dates before, on and after it; a domestic rate
\* of 3% or 0, a foreign rate of 1%; vols of 0.20, 0.25, 0 and -0.10.
FXMaturities == {NoDate, [y |-> 2025, m |-> 7, d |-> 2]}
FXReferenceDates ==
    {NoDate, [y |-> 2025, m |-> 1, d |-> 1], [y |-> 2025, m |-> 7, d |-> 2],
     [y |-> 2025, m |-> 12, d |-> 31]}
FXDomestic == {Nothing, Some(300), Some(0)}
FXForeign == {Nothing, Some(100)}
FXVols == {Nothing, Some(0), Some(-100000), Some(200000), Some(250000)}

\* The state of the parts of the program a stateless operation does not touch.
Detached ==
    /\ opt = NoOption
    /\ vols = <<>>
    /\ models = <<>>
    /\ evalDate = 0
    /\ call = IdleCall
    /\ px = NoPx

\* The caller has chosen an operation, an option and a reference date.
FXInit ==
    /\ Detached
    /\ res \in {[op |-> "args", fn |-> op, reference_date |-> reference_date,
                 option |-> NewFXOption(spot, maturity_date, option_type,
                                        domestic_curve, foreign_curve, vol)] :
                    op \in FXOps, spot \in {10, NoSpot},
                    maturity_date \in FXMaturities, option_type \in {"call", "put"},
                    domestic_curve \in FXDomestic, foreign_curve \in FXForeign,
                    vol \in FXVols, reference_date \in FXReferenceDates}

FXCall ==
    /\ res.op = "args"
    /\ res' = GKCall(res.fn, res.option, res.reference_date)
    /\ UNCHANGED <<opt, vols, models, evalDate, call, px>>

FXNext == FXCall

FXSpec == FXInit /\ [][FXNext]_vars

\* An operation of the FX model has just been called.
FXCalled == res.op \in FXOps

\* The call had both dates, and the time from reference date to maturity is
\* not positive.
FXTimeNonPositive ==
    /\ res.option.maturity_date # NoDate
    /\ res.reference_date # NoDate
    /\ DayNumber(res.option.maturity_date) <= DayNumber(res.reference_date)

\* C16: a call of price, delta, vega or gamma whose time to expiry is not
\* positive (maturity on or before the reference date) or whose volatility is
\* given and not positive raises an error and does not evaluate the division
\* by sigma*sqrt(T).
C16_DegenerateInputsRaise ==
    (FXCalled /\ (FXTimeNonPositive \/ (res.option.vol.some /\ res.option.vol.v <= 0)))
        => (~res.out.ok /\ ~res.divided)

\* A price was asked for an option whose maturity is before the reference
\* date, with spot, curves and a positive vol given: the time error is raised.
C16_Witness ==
    /\ FXCalled /\ res.op = "price"
    /\ res.option.maturity_date # NoDate /\ res.reference_date # NoDate
    /\ DayNumber(res.option.maturity_date) < DayNumber(res.reference_date)
    /\ res.option.vol.some /\ res.option.vol.v > 0
    /\ res.out.err = "NonPositiveTime"

\* The required inputs absent from a call.
FXMissing ==
    (IF res.option.domestic_curve.some THEN {} ELSE {"domestic_curve"})
    \cup (IF res.option.foreign_curve.some THEN {} ELSE {"foreign_curve"})
    \cup (IF res.option.vol.some THEN {} ELSE {"vol"})
    \cup (IF res.option.maturity_date # NoDate THEN {} ELSE {"maturity_date"})
    \cup (IF res.reference_date # NoDate THEN {} ELSE {"reference_date"})

\* The input an error's message names.
FXErrorNames(err) ==
    CASE err = "MissingMaturityDate" -> {"maturity_date"}
      [] err = "MissingReferenceDate" -> {"reference_date"}
      [] err = "MissingVol" -> {"vol"}
      [] OTHER -> {}

\* C17: a call with a required input absent (domestic curve, foreign curve,
\* vol, maturity date or reference date) and nothing else wrong with its
\* inputs fails with an error that names an absent input; no value is returned.
C17_MissingInputFails ==
    (/\ FXCalled /\ FXMissing # {}
     /\ res.option.spot # NoSpot /\ ~FXTimeNonPositive
     /\ ~(res.option.vol.some /\ res.option.vol.v <= 0))
        => /\ ~res.out.ok
           /\ FXErrorNames(res.out.err) # {}
           /\ FXErrorNames(res.out.err) \subseteq FXMissing

\* ------------------------------------------------------------ day counts
\* get_day_count(name): the convention of a name (upper case, no spaces), or
\* ValueError for a name that is not supported.
GetDayCount(name) ==
    CASE name \in {"ACT365F", "ACT/365F", "ACT365"} -> Value("Actual365Fixed")
      [] name \in {"ACT360", "ACT/360"} -> Value("Actual360")
      [] name \in {"30/360", "30_360", "30360"} -> Value("Thirty360")
      [] OTHER -> Raise("ValueError")

\* QuantLib's DayCounter.yearFraction(d1, d2): the signed day count of the
\* convention over its basis.  Thirty360 is the bond basis: a start day of 31
\* counts as 30, and so does an end day of 31 after a start day of 30.
QlYearFraction(dc, d1, d2) ==
    LET actual == DayNumber(d2) - DayNumber(d1)
        dd1    == IF d1.d = 31 THEN 30 ELSE d1.d
        dd2    == IF d2.d = 31 /\ dd1 = 30 THEN 30 ELSE d2.d
    IN  CASE dc = "Actual365Fixed" -> Fraction(actual, 365)
          [] dc = "Actual360" -> Fraction(actual, 360)
          [] dc = "Thirty360" ->
               Fraction(360 * (d2.y - d1.y) + 30 * (d2.m - d1.m) + (dd2 - dd1), 360)

\* util.year_fraction(start, end, day_count=): get_day_count, to_ql_date of
\* both dates (TypeError for None), then the convention's year fraction as it is.
year_fraction(start, end, day_count) ==
    LET dc == GetDayCount(day_count)
    IN  IF ~dc.ok THEN dc
        ELSE IF start = NoDate \/ end = NoDate THEN Raise("TypeError")
        ELSE Value(QlYearFraction(dc.val, start, end))

\* Calendar(day_count=day_count).year_fraction(start, end)
CalendarYearFraction(start, end, day_count) ==
    LET dc == GetDayCount(day_count)
    IN  IF ~dc.ok THEN dc
        ELSE IF start = NoDate \/ end = NoDate THEN Raise("TypeError")
        ELSE Value(QlYearFraction(dc.val, start, end))

\* _year_fraction_act365(start, end) with _to_ymd's ValueError for None.
FXYearFraction(start, end) ==
    IF start = NoDate \/ end = NoDate THEN Raise("ValueError")
    ELSE Value(YearFractionAct365(start, end))

\* The year-fraction operations.
YearFractionOps == {"year_fraction", "Calendar.year_fraction", "_year_fraction_act365"}

YearFractionCall(fn, start, end, day_count) ==
    [op |-> fn, start |-> start, end |-> end, day_count |-> day_count,
     out |-> CASE fn = "year_fraction" -> year_fraction(start, end, day_count)
               [] fn = "Calendar.year_fraction" ->
                    CalendarYearFraction(start, end, day_count)
               [] fn = "_year_fraction_act365" -> FXYearFraction(start, end)]

\* ------------------------------------------------------------ tenors
\* A string is the sequence of its characters.
Whitespace == {" "}

RECURSIVE LStrip(_)
LStrip(s) == IF Len(s) > 0 /\ Head(s) \in Whitespace THEN LStrip(Tail(s)) ELSE s

RECURSIVE RStrip(_)
RStrip(s) ==
    IF Len(s) > 0 /\ s[Len(s)] \in Whitespace THEN RStrip(SubSeq(s, 1, Len(s) - 1))
    ELSE s

\* str.strip()
Strip(s) == RStrip(LStrip(s))

\* str.upper()
UpperChar(c) ==
    CASE c = "d" -> "D" [] c = "w" -> "W" [] c = "m" -> "M" [] c = "y" -> "Y"
      [] c = "x" -> "X" [] OTHER -> c
Upper(s) == [i \in 1..Len(s) |-> UpperChar(s[i])]

DigitChars == <<"0", "1", "2", "3", "4", "5", "6", "7", "8", "9">>
IsDigit(c) == \E i \in 1..Len(DigitChars) : DigitChars[i] = c
DigitOf(c) == (CHOOSE i \in 1..Len(DigitChars) : DigitChars[i] = c) - 1

\* int(s) for a string: surrounding whitespace is ignored, one sign may lead,
\* and single underscores may separate digits; anything else is ValueError.
PyInt(s) ==
    LET t      == Strip(s)
        signed == Len(t) > 0 /\ t[1] \in {"+", "-"}
        body   == IF signed THEN Tail(t) ELSE t
        wf     == /\ Len(body) > 0
                  /\ \A i \in 1..Len(body) : IsDigit(body[i]) \/ body[i] = "_"
                  /\ body[1] # "_" /\ body[Len(body)] # "_"
                  /\ \A i \in 1..(Len(body) - 1) : ~(body[i] = "_" /\ body[i + 1] = "_")
        digits == SelectSeq(body, IsDigit)
        mag    == DigitsValue([i \in 1..Len(digits) |-> DigitOf(digits[i])])
    IN  IF ~wf THEN Raise("ValueError")
        ELSE Value(IF signed /\ t[1] = "-" THEN -mag ELSE mag)

\* Tenor.unit values
TenorUnits == {"D", "W", "M", "Y"}

\* parse_tenor(value) for a string value.
parse_tenor(value) ==
    IF Len(Strip(value)) < 2 THEN Raise("TypeError")
    ELSE LET s    == Upper(Strip(value))
             unit == s[Len(s)]
             n    == PyInt(SubSeq(s, 1, Len(s) - 1))
         IN  IF unit \notin TenorUnits THEN Raise("ValueError")
             ELSE IF ~n.ok THEN Raise("ValueError")
             ELSE IF n.val <= 0 THEN Raise("ValueError")
             ELSE Value([n |-> n.val, unit |-> unit])

\* ------------------------------------------------------------ util calls
\* Longest string drawn for parse_tenor.
MaxTenorLen == 4

\* The characters drawn: digits, signs, a blank, a separator, units in either
\* case and a letter that is no unit.
TenorAlphabet == {"0", "1", "3", "+", "-", " ", "_", "M", "y", "X"}

Strings(n) == UNION {[1..k -> TenorAlphabet] : k \in 0..n}

\* Dates drawn: a leap day, month ends and the FX dates.
UtilDates ==
    {NoDate, [y |-> 2024, m |-> 2, d |-> 29], [y |-> 2025, m |-> 1, d |-> 1],
     [y |-> 2025, m |-> 1, d |-> 31], [y |-> 2025, m |-> 7, d |-> 2],
     [y |-> 2025, m |-> 12, d |-> 31]}
DayCountNames == {"ACT365F", "ACT/360", "30/360", "BUS252"}

UtilInit ==
    /\ Detached
    /\ res \in {[op |-> "args", fn |-> fn, start |-> start, end |-> end,
                 day_count |-> day_count] :
                    fn \in YearFractionOps, start \in UtilDates, end \in UtilDates,
                    day_count \in DayCountNames}
               \cup {[op |-> "args", fn |-> "parse_tenor", value |-> value] :
                        value \in Strings(MaxTenorLen)}

YearFraction ==
    /\ res.op = "args"
    /\ res.fn \in YearFractionOps
    /\ res' = YearFractionCall(res.fn, res.start, res.end, res.day_count)
    /\ UNCHANGED <<opt, vols, models, evalDate, call, px>>

ParseTenor ==
    /\ res.op = "args"
    /\ res.fn = "parse_tenor"
    /\ res' = [op |-> "parse_tenor", value |-> res.value, out |-> parse_tenor(res.value)]
    /\ UNCHANGED <<opt, vols, models, evalDate, call, px>>

UtilNext ==
    \/ YearFraction
    \/ ParseTenor

UtilSpec == UtilInit /\ [][UtilNext]_vars

\* C18: every year fraction returned by util.year_fraction,
\* Calendar.year_fraction or _year_fraction_act365 is >= 0, and is 0 when end
\* is before start.
C18_YearFractionNonNegative ==
    (res.op \in YearFractionOps /\ res.out.ok)
        => /\ res.out.val.num >= 0
           /\ DayNumber(res.end) < DayNumber(res.start) => res.out.val.num = 0

\* The string is decimal digits of value >= 1 followed by one of D, W, M, Y.
TenorForm(s) ==
    /\ Len(s) >= 2
    /\ s[Len(s)] \in TenorUnits
    /\ \A i \in 1..(Len(s) - 1) : IsDigit(s[i])
    /\ DigitsValue([i \in 1..(Len(s) - 1) |-> DigitOf(s[i])]) >= 1

\* C19: parse_tenor returns a Tenor exactly for the strings that, once
\* surrounding whitespace is stripped and letters are upper-cased, are a
\* positive integer followed by D, W, M or Y, and fails for every other
\* string (signed counts, embedded whitespace, separators); a Tenor returned
\* has n >= 1 and a unit among D, W, M, Y.
C19_ParseTenorStrict ==
    res.op = "parse_tenor"
        => /\ res.out.ok <=> TenorForm(Upper(Strip(res.value)))
           /\ res.out.ok => (res.out.val.n >= 1 /\ res.out.val.unit \in TenorUnits)

\* ------------------------------------------------------------ IRCurve
\* Most quotes in a dict passed to set_deposit_quotes.
MaxQuotes == 3

\* ord() of a unit letter: the order of one-character strings.
UnitCode(unit) ==
    CASE unit = "D" -> 68 [] unit = "M" -> 77 [] unit = "W" -> 87 [] unit = "Y" -> 89

\* _tenor_key(t) = (ten.n, ten.unit), compared as tuples.
TenorKeyLess(a, b) ==
    \/ a.n < b.n
    \/ a.n = b.n /\ UnitCode(a.unit) < UnitCode(b.unit)

\* The place of item i in the stable sort of items by key: after the items
\* of smaller key and the earlier items of equal key.
TenorRank(items, i) ==
    LET key(j) == parse_tenor(items[j].tenor).val
    IN  1 + Cardinality({j \in 1..Len(items) :
                            \/ TenorKeyLess(key(j), key(i))
                            \/ ~TenorKeyLess(key(i), key(j)) /\ j < i})

\* sorted(quotes.items(), key=lambda kv: _tenor_key(kv[0])): a stable sort of
\* the items, taken in the dict's insertion order.
SortedByTenorKey(items) ==
    [p \in 1..Len(items) |-> items[CHOOSE i \in 1..Len(items) : TenorRank(items, i) = p]]

\* IRCurve.set_deposit_quotes(quotes): the key of every item is computed (a
\* tenor that does not parse raises), then one DepositRateHelper is appended
\* per item of the sorted list; _quotes and _helpers are replaced at the end.
set_deposit_quotes(curve, quotes) ==
    IF \E i \in 1..Len(quotes) : ~parse_tenor(quotes[i].tenor).ok
    THEN [op |-> "set_deposit_quotes", quotes |-> quotes, curve |-> curve,
          out |-> Raise("ValueError")]
    ELSE LET items   == SortedByTenorKey(quotes)
             helpers == [i \in 1..Len(items) |->
                           [tenor |-> items[i].tenor, rate |-> items[i].rate,
                            period |-> parse_tenor(items[i].tenor).val]]
         IN  [op |-> "set_deposit_quotes", quotes |-> quotes,
              curve |-> [_quotes |-> {items[i].tenor : i \in 1..Len(items)},
                         _helpers |-> helpers],
              out |-> Value(0)]

\* IRCurve(rate) before any deposit quote: no quotes, no helpers.
NewIRCurve == [_quotes |-> {}, _helpers |-> <<>>]

\* The deposit quotes a caller holds: tenors of mixed units and a tenor that
\* does not parse, each with its rate in basis points.
QuoteSheet ==
    {[tenor |-> <<"1", "D">>, rate |-> 280], [tenor |-> <<"2", "W">>, rate |-> 290],
     [tenor |-> <<"3", "M">>, rate |-> 300], [tenor |-> <<"6", "M">>, rate |-> 310],
     [tenor |-> <<"1", "Y">>, rate |-> 320], [tenor |-> <<"3", "Q">>, rate |-> 330]}

\* The dicts of at most n quotes, as the sequences of their items in insertion order.
QuoteDicts(n) ==
    {q \in UNION {[1..k -> QuoteSheet] : k \in 1..n} :
        \A i, j \in 1..Len(q) : i # j => q[i] # q[j]}

CurveInit ==
    /\ Detached
    /\ res \in {[op |-> "args", curve |-> NewIRCurve, quotes |-> q] : q \in QuoteDicts(MaxQuotes)}

SetDepositQuotes ==
    /\ res.op = "args"
    /\ res' = set_deposit_quotes(res.curve, res.quotes)
    /\ UNCHANGED <<opt, vols, models, evalDate, call, px>>

CurveNext == SetDepositQuotes

CurveSpec == CurveInit /\ [][CurveNext]_vars

\* The nominal length of a tenor in days.
TenorDays(ten) ==
    ten.n * (CASE ten.unit = "D" -> 1 [] ten.unit = "W" -> 7
               [] ten.unit = "M" -> 30 [] ten.unit = "Y" -> 365)

\* C20: after set_deposit_quotes the helpers list has exactly one helper per
\* quote, and each helper's tenor is no shorter than the one before it.
C20_HelpersByIncreasingMaturity ==
    (res.op = "set_deposit_quotes" /\ res.out.ok)
        => LET h == res.curve._helpers
           IN  /\ Len(h) = Len(res.quotes)
               /\ \A i \in 1..Len(res.quotes) :
                     Cardinality({j \in 1..Len(h) : h[j].tenor = res.quotes[i].tenor}) = 1
               /\ \A i \in 1..(Len(h) - 1) :
                     TenorDays(h[i].period) <= TenorDays(h[i + 1].period)

\* ------------------------------------------------------------ EQVol surfaces
\* Calendar.add_tenor(value, tenor): parse_tenor, then the calendar advances
\* the date by the period (the nominal length of the period here).
add_tenor(value, tenor) ==
    LET t == parse_tenor(tenor)
    IN  IF ~t.ok THEN t ELSE Value(value + TenorDays(t.val))

\* ql.BlackVarianceSurface(today, calendar, dates, strikes, m, day_count): the
\* constructor refuses an empty grid, a first date before the reference date
\* and dates that are not strictly increasing.
BlackVarianceSurface(today, dates, strikes, m) ==
    IF Len(dates) = 0 \/ Len(strikes) = 0 THEN Raise("RuntimeError")
    ELSE IF dates[1] < today THEN Raise("RuntimeError")
    ELSE IF \E j \in 1..(Len(dates) - 1) : dates[j + 1] <= dates[j]
         THEN Raise("RuntimeError")
    ELSE Value([kind |-> "surface", ref |-> today, dates |-> dates,
                strikes |-> strikes, m |-> m, interpolation |-> "linear",
                extrapolate |-> FALSE])

\* The three checks at the head of set_surface_vol, without the first.
ShapeMismatchEmptyAllowed(strikes, tenors, grid) ==
    \/ Len(grid) # Len(tenors)
    \/ \E r \in 1..Len(grid) : Len(grid[r]) # Len(strikes)

\* The three checks at the head of set_surface_vol.
ShapeMismatch(strikes, tenors, grid) ==
    \/ Len(tenors) = 0 \/ Len(strikes) = 0
    \/ Len(grid) # Len(tenors)
    \/ \E r \in 1..Len(grid) : Len(grid[r]) # Len(strikes)

\* The tail of set_surface_vol once the expiry dates are computed: the matrix
\* [strikes x dates], the surface with its interpolation and extrapolation,
\* and only then the two assignments.
SurfaceFromExpiries(v, strikes, expiry, grid, today, extrapolate) ==
    LET bad    == {j \in 1..Len(expiry) : ~expiry[j].ok}
        first  == CHOOSE j \in bad : \A k \in bad : j <= k
        expiry_dates == [j \in 1..Len(expiry) |-> expiry[j].val]
        m      == [i \in 1..Len(strikes) |->
                     [j \in 1..Len(expiry_dates) |-> grid[j][i]]]
    IN  IF bad # {} THEN [v |-> v, built |-> FALSE, out |-> expiry[first]]
        ELSE LET built == BlackVarianceSurface(today, expiry_dates, strikes, m)
             IN  IF ~built.ok THEN [v |-> v, built |-> FALSE, out |-> built]
                 ELSE LET surface == [built.val EXCEPT !.interpolation = "bilinear",
                                                       !.extrapolate = extrapolate]
                      IN  [v |-> [v EXCEPT !.vol_ts = surface, !.handle = surface],
                           built |-> TRUE, out |-> Value(0)]

\* EQVol.set_surface_vol: the shape checks, then the expiry dates by
\* add_tenor, then the surface.  built tells whether a surface object was
\* constructed.
set_surface_vol(v, strikes, tenors, grid, reference_date, extrapolate) ==
    IF ShapeMismatch(strikes, tenors, grid)
    THEN [v |-> v, built |-> FALSE, out |-> Raise("ShapeMismatch")]
    ELSE SurfaceFromExpiries(v, strikes,
             [j \in 1..Len(tenors) |-> add_tenor(reference_date, tenors[j])],
             grid, reference_date, extrapolate)

\* ------------------------------------------------------------ EQVol calls
\* Longest tenor list, strike list and grid row drawn for set_surface_vol.
MaxGrid == 2

FlatSigmas == {0, 200000, 250000}
VolReferenceDates == {0, 30}
SurfaceStrikes == {<<>>, <<90>>, <<90, 100>>}
SurfaceTenors ==
    {<<>>, << <<"1", "M">> >>, << <<"1", "M">>, <<"3", "M">> >>,
     << <<"3", "M">>, <<"1", "M">> >>, << <<"3", "Q">> >>}
GridRows == {[i \in 1..n |-> 200000 + 50000 * (i - 1)] : n \in 0..(MaxGrid + 1)}
Grids == UNION {[1..n -> GridRows] : n \in 0..MaxGrid}

VolInit ==
    /\ opt = NoOption
    /\ vols = <<NewEQVol("USD")>>
    /\ models = <<>>
    /\ evalDate = 0
    /\ call = IdleCall
    /\ px = NoPx
    /\ res = NoRes

\* vol.set_flat_vol(sigma, reference_date=...)
SetFlatVol ==
    /\ res = NoRes
    /\ \E sigma \in FlatSigmas, reference_date \in VolReferenceDates :
          /\ vols' = [vols EXCEPT ![1] = set_flat_vol(@, sigma, reference_date)]
          /\ res' = [op |-> "set_flat_vol", sigma |-> sigma,
                     reference_date |-> reference_date, pre |-> vols[1],
                     out |-> Value(0)]
    /\ UNCHANGED <<opt, models, evalDate, call, px>>

\* The effect of a set_surface_vol call whose outcome is r.
SurfaceCall(r, strikes, tenors, grid) ==
    /\ vols' = [vols EXCEPT ![1] = r.v]
    /\ res' = [op |-> "set_surface_vol", strikes |-> strikes, tenors |-> tenors,
               vols |-> grid, pre |-> vols[1], built |-> r.built, out |-> r.out]

\* vol.set_surface_vol(strikes=..., tenors=..., vols=..., reference_date=...)
SetSurfaceVol ==
    /\ res = NoRes
    /\ \E strikes \in SurfaceStrikes, tenors \in SurfaceTenors, grid \in Grids,
          reference_date \in VolReferenceDates, extrapolate \in BOOLEAN :
          SurfaceCall(set_surface_vol(vols[1], strikes, tenors, grid,
                                      reference_date, extrapolate),
                      strikes, tenors, grid)
    /\ UNCHANGED <<opt, models, evalDate, call, px>>

\* The call has returned to the caller.
VolReturn ==
    /\ res # NoRes
    /\ res' = NoRes
    /\ UNCHANGED <<opt, vols, models, evalDate, call, px>>

VolNext == SetFlatVol \/ SetSurfaceVol \/ VolReturn

VolSpec == VolInit /\ [][VolNext]_vars

\* The arguments of the last set_surface_vol call do not form a grid.
SurfaceShapeBad ==
    \/ Len(res.tenors) = 0 \/ Len(res.strikes) = 0
    \/ Len(res.vols) # Len(res.tenors)
    \/ \E r \in 1..Len(res.vols) : Len(res.vols[r]) # Len(res.strikes)

\* C21: set_surface_vol called with empty tenors or strikes, with a number of
\* rows other than the number of tenors, or with a row whose length is not the
\* number of strikes, raises the shape-mismatch error, builds no surface and
\* leaves the stored term structure and the handle as they were.
C21_ShapeMismatchFailsFast ==
    (res.op = "set_surface_vol" /\ SurfaceShapeBad)
        => /\ ~res.out.ok /\ res.out.err = "ShapeMismatch"
           /\ ~res.built
           /\ vols[1] = res.pre

\* A shape-mismatched call made on a EQVol that already holds a term structure.
C21_Witness ==
    /\ res.op = "set_surface_vol" /\ SurfaceShapeBad
    /\ res.pre.vol_ts # NoTS
    /\ res.out.err = "ShapeMismatch"

\* C22: set_flat_vol with sigma <= 0 raises a ValueError and leaves the stored
\* term structure unchanged; at all times the handle is linked to the stored
\* term structure, and a stored flat term structure has sigma > 0.
C22_FlatVolPositive ==
    /\ (res.op = "set_flat_vol" /\ res.sigma <= 0)
          => (~res.out.ok /\ res.out.err = "ValueError" /\ vols[1] = res.pre)
    /\ vols[1].handle = vols[1].vol_ts
    /\ vols[1].vol_ts.kind = "flat" => vols[1].vol_ts.sigma > 0

\* ------------------------------------------------------------ construction
\* Option.__post_init__ on the dataclass fields: strike defaults to 0.0 and is
\* converted with float(); style, underlying and option_type are validated.
OptionPostInit(a) ==
    LET strike == IF a.strike.some THEN a.strike.v ELSE 0
    IN  IF a.style \notin {"European", "American"} THEN Raise("ValueError")
        ELSE IF a.underlying \notin {"Equity", "FX"} THEN Raise("ValueError")
        ELSE IF a.option_type \notin {"call", "put", "Call", "Put"} THEN Raise("ValueError")
        ELSE Value([strike |-> strike, maturity_date |-> 0,
                    option_type |-> a.option_type, style |-> a.style,
                    underlying |-> a.underlying, pricing_engine |-> "default",
                    spot |-> NoSpot, ir_curve |-> None, div_curve |-> None,
                    vol |-> Null, model |-> Null])

\* EQOption.__post_init__: the base checks, the underlying check, the engine
\* alias and the attempt to build a default model.
EQOptionPostInit(a) ==
    LET base == OptionPostInit(a)
    IN  IF ~base.ok THEN base
        ELSE IF a.underlying \notin {"Equity", "EQ"} THEN Raise("ValueError")
        ELSE Value(BindDefault(base.val, <<>>)[1])

\* Constructor arguments drawn: the class, the strike (omitted or given), and
\* the three validated strings.
CtorClasses == {"Option", "EQOption"}
CtorStrikes == {Nothing, Some(0 - 5), Some(0), Some(10)}
CtorStyles == {"European", "American", "Bermudan"}
CtorUnderlyings == {"Equity", "FX", "EQ", "IR"}
CtorOptionTypes == {"call", "put", "Call", "straddle"}

CtorInit ==
    /\ Detached
    /\ res \in {[op |-> "args", cls |-> cls, strike |-> strike, style |-> style,
                 underlying |-> underlying, option_type |-> option_type] :
                    cls \in CtorClasses, strike \in CtorStrikes, style \in CtorStyles,
                    underlying \in CtorUnderlyings, option_type \in CtorOptionTypes}

\* Option(...) or EQOption(...)
Construct ==
    /\ res.op = "args"
    /\ res' = [op |-> "construct", args |-> res,
               out |-> IF res.cls = "EQOption" THEN EQOptionPostInit(res)
                       ELSE OptionPostInit(res)]
    /\ UNCHANGED <<opt, vols, models, evalDate, call, px>>

CtorNext == Construct

CtorSpec == CtorInit /\ [][CtorNext]_vars

\* C23: an option whose construction succeeded has strike > 0.
C23_ConstructedStrikePositive ==
    (res.op = "construct" /\ res.out.ok) => res.out.val.strike > 0

\* ------------------------------------------------------------ market moves
\* Largest number of prices taken of one option.
MaxReprices == 3

\* Domestic rates of 2%, 3% and 4%; vols of 0.20, 0.25 and 0.50; the option is
\* the half-year at-the-money option of the FX model, priced on 2025-01-01.
RepriceRates == {200, 300, 400}
RepriceVols == {200000, 250000, 500000}
RepriceDate == [y |-> 2025, m |-> 1, d |-> 1]

RepriceInit ==
    /\ Detached
    /\ res \in {[op |-> "reprice",
                 option |-> NewFXOption(10, [y |-> 2025, m |-> 7, d |-> 2], option_type,
                                        Some(rd), foreign_curve, Some(sigma)),
                 prices |-> <<>>] :
                    option_type \in {"call", "put"}, rd \in RepriceRates,
                    foreign_curve \in FXForeign, sigma \in RepriceVols}

\* option.domestic_curve = rd
RepriceSetRate ==
    /\ res.op = "reprice"
    /\ \E rd \in RepriceRates :
          /\ res.option.domestic_curve # Some(rd)
          /\ res' = [res EXCEPT !.option.domestic_curve = Some(rd)]
    /\ UNCHANGED <<opt, vols, models, evalDate, call, px>>

\* option.vol = sigma
RepriceSetVol ==
    /\ res.op = "reprice"
    /\ \E sigma \in RepriceVols :
          /\ res.option.vol # Some(sigma)
          /\ res' = [res EXCEPT !.option.vol = Some(sigma)]
    /\ UNCHANGED <<opt, vols, models, evalDate, call, px>>

\* model.price(option, reference_date=...), the result kept by the caller
\* next to the market it was taken in.
Reprice ==
    /\ res.op = "reprice"
    /\ Len(res.prices) < MaxReprices
    /\ LET c == GKCall("price", res.option, RepriceDate)
       IN  res' = [res EXCEPT !.prices =
                      Append(@, [rd |-> c.inp.rd, sigma |-> c.inp.sigma, out |-> c.out])]
    /\ UNCHANGED <<opt, vols, models, evalDate, call, px>>

RepriceNext == RepriceSetRate \/ RepriceSetVol \/ Reprice

RepriceSpec == RepriceInit /\ [][RepriceNext]_vars

\* C24: of two prices of the same option (same strike, maturity, spot and
\* foreign rate), the one taken at the higher volatility is not lower, for
\* calls and puts; the one taken at the higher domestic rate is not lower for
\* a call and not higher for a put; a call priced after the rate and then the
\* volatility were raised is priced successively higher.
C24_PriceMonotone ==
    res.op = "reprice" =>
        \A i, j \in 1..Len(res.prices) :
            LET a == res.prices[i]
                b == res.prices[j]
                is_call == res.option.option_type = "call"
            IN  /\ a.out.ok /\ b.out.ok
                /\ (a.rd = b.rd /\ a.sigma <= b.sigma) => a.out.val <= b.out.val
                /\ (a.sigma = b.sigma /\ a.rd <= b.rd)
                      => IF is_call THEN a.out.val <= b.out.val
                         ELSE a.out.val >= b.out.val
                /\ (is_call /\ a.rd <= b.rd /\ a.sigma <= b.sigma)
                      => a.out.val <= b.out.val

\* A call priced at 2% and 0.20, again after the rate was raised to 4%, and
\* again after the vol was raised to 0.25, each price above the one before.
C24_Witness ==
    /\ res.op = "reprice" /\ res.option.option_type = "call"
    /\ Len(res.prices) = 3
    /\ res.prices[1].rd = 200 /\ res.prices[1].sigma = 200000
    /\ res.prices[2].rd = 400 /\ res.prices[2].sigma = 200000
    /\ res.prices[3].rd = 400 /\ res.prices[3].sigma = 250000
    /\ res.prices[1].out.val < res.prices[2].out.val
    /\ res.prices[2].out.val < res.prices[3].out.val

\* ------------------------------------------------------------ portfolio
\* Leg(contract_symbol, right, strike, expiry, qty=, mid=, ttm=, moneyness=)
NewLeg(contract_symbol, right, strike, expiry, qty, mid, ttm, moneyness) ==
    [contract_symbol |-> contract_symbol, right |-> right, strike |-> strike,
     expiry |-> expiry, qty |-> qty, mid |-> mid, ttm |-> ttm,
     moneyness |-> moneyness]

\* Portfolio(name=, legs=)
NewPortfolio(name, legs) == [name |-> name, legs |-> legs]

\* Portfolio.symbols()
symbols(p) == [i \in 1..Len(p.legs) |-> p.legs[i].contract_symbol]

\* sum(...) of the first n terms of f, left to right from 0.
RECURSIVE SumTo(_, _)
SumTo(f, n) == IF n = 0 THEN 0 ELSE SumTo(f, n - 1) + f[n]

\* (the legs without a price are skipped)
value_from_prices_partial(p, prices) ==
    [out |-> Value(SumTo([i \in 1..Len(p.legs) |->
                            IF p.legs[i].contract_symbol \in DOMAIN prices
                            THEN p.legs[i].qty * prices[p.legs[i].contract_symbol]
                            ELSE 0], Len(p.legs))),
     missing |-> <<>>]

\* Portfolio.value_from_prices(prices): KeyError with the list of the legs'
\* symbols that have no price, else the sum of qty * price over the legs.
value_from_prices(p, prices) ==
    LET missing == SelectSeq(symbols(p), LAMBDA sym : sym \notin DOMAIN prices)
    IN  IF missing # <<>> THEN [out |-> Raise("KeyError"), missing |-> missing]
        ELSE [out |-> Value(SumTo([i \in 1..Len(p.legs) |->
                                     p.legs[i].qty * prices[p.legs[i].contract_symbol]],
                                  Len(p.legs))),
              missing |-> <<>>]

\* Portfolio.aggregate_greeks(greeks): the keys are those of the first leg
\* that has an entry; KeyError when no leg has one or when some leg has none;
\* else for each key the sum of qty * g.get(key, 0.0) over the legs.
aggregate_greeks(p, greeks) ==
    LET have    == {i \in 1..Len(p.legs) : p.legs[i].contract_symbol \in DOMAIN greeks}
        i0      == CHOOSE i \in have : \A j \in have : i <= j
        first   == greeks[p.legs[i0].contract_symbol]
        keys    == DOMAIN first
        missing == SelectSeq(symbols(p), LAMBDA sym : sym \notin DOMAIN greeks)
        term(k) == [i \in 1..Len(p.legs) |->
                      LET g == greeks[p.legs[i].contract_symbol]
                      IN  p.legs[i].qty * (IF k \in DOMAIN g THEN g[k] ELSE 0)]
    IN  IF have = {} THEN [out |-> Raise("KeyError"), missing |-> <<>>]
        ELSE IF missing # <<>> THEN [out |-> Raise("KeyError"), missing |-> missing]
        ELSE [out |-> Value([k \in keys |-> SumTo(term(k), Len(p.legs))]),
              missing |-> <<>>]

\* ------------------------------------------------------------ portfolio calls
\* Longest tuple of legs drawn.
MaxLegs == 2

\* Contracts, quantities (long, short, double), prices in cents, greek names
\* and greek values in hundredths.
PortfolioSymbols == {"OPT1", "OPT2", "OPT3"}
LegQtys == {1, 0 - 1, 2}
LegPool ==
    {NewLeg(sym, "call", 100, "2025-01-17", qty, Nothing, Nothing, Nothing) :
        sym \in PortfolioSymbols, qty \in LegQtys}
PriceMaps == UNION {[D -> {200, 500}] : D \in SUBSET PortfolioSymbols}
GreekNames == {"delta", "gamma"}
GreekDicts == UNION {[K -> {0 - 40, 60}] : K \in SUBSET GreekNames}
GreekMaps == UNION {[D -> GreekDicts] : D \in SUBSET {"OPT1", "OPT2"}}

PortfolioInit ==
    /\ Detached
    /\ \E legs \in UNION {[1..n -> LegPool] : n \in 0..MaxLegs} :
          res \in {[op |-> "args", fn |-> "value_from_prices",
                    portfolio |-> NewPortfolio("test", legs), prices |-> prices] :
                       prices \in PriceMaps}
                  \cup {[op |-> "args", fn |-> "aggregate_greeks",
                         portfolio |-> NewPortfolio("test", legs), greeks |-> greeks] :
                           greeks \in GreekMaps}

\* p.value_from_prices(prices)
ValueFromPrices ==
    /\ res.op = "args" /\ res.fn = "value_from_prices"
    /\ LET r == value_from_prices(res.portfolio, res.prices)
       IN  res' = [op |-> "value_from_prices", portfolio |-> res.portfolio,
                   prices |-> res.prices, out |-> r.out, missing |-> r.missing]
    /\ UNCHANGED <<opt, vols, models, evalDate, call, px>>

\* p.aggregate_greeks(greeks)
AggregateGreeks ==
    /\ res.op = "args" /\ res.fn = "aggregate_greeks"
    /\ LET r == aggregate_greeks(res.portfolio, res.greeks)
       IN  res' = [op |-> "aggregate_greeks", portfolio |-> res.portfolio,
                   greeks |-> res.greeks, out |-> r.out, missing |-> r.missing]
    /\ UNCHANGED <<opt, vols, models, evalDate, call, px>>

PortfolioNext == ValueFromPrices \/ AggregateGreeks

PortfolioSpec == PortfolioInit /\ [][PortfolioNext]_vars

\* The contract symbols of the legs of the portfolio of the last call.
LegSymbols == {res.portfolio.legs[i].contract_symbol : i \in 1..Len(res.portfolio.legs)}

\* The sum of f over the finite set S.
RECURSIVE SetSum(_, _)
SetSum(f, S) ==
    IF S = {} THEN 0
    ELSE LET x == CHOOSE y \in S : TRUE IN f[x] + SetSum(f, S \ {x})

\* The net quantity the portfolio holds of a contract.
NetQty(sym) ==
    SetSum([i \in 1..Len(res.portfolio.legs) |-> res.portfolio.legs[i].qty],
           {i \in 1..Len(res.portfolio.legs) :
               res.portfolio.legs[i].contract_symbol = sym})

\* C25: value_from_prices returns the sum over the legs of qty * price, short
\* legs subtracting; when a leg's symbol has no price it raises KeyError
\* naming exactly the symbols without a price and returns no sum.
C25_ValueFromPrices ==
    res.op = "value_from_prices" =>
        LET absent == LegSymbols \ DOMAIN res.prices
        IN  IF absent = {}
            THEN /\ res.out.ok
                 /\ res.out.val =
                        SetSum([sym \in LegSymbols |-> NetQty(sym) * res.prices[sym]],
                               LegSymbols)
            ELSE /\ ~res.out.ok /\ res.out.err = "KeyError"
                 /\ {res.missing[i] : i \in 1..Len(res.missing)} = absent

\* A long and a short leg priced: the short leg subtracts.
C25_Witness ==
    /\ res.op = "value_from_prices" /\ res.out.ok
    /\ Len(res.portfolio.legs) = 2
    /\ res.portfolio.legs[1].qty = 1 /\ res.portfolio.legs[2].qty = 0 - 1
    /\ res.portfolio.legs[1].contract_symbol = "OPT1"
    /\ res.portfolio.legs[2].contract_symbol = "OPT2"
    /\ res.prices["OPT1"] = 500 /\ res.prices["OPT2"] = 200
    /\ res.out.val = 300

\* The greek names given for some leg of the portfolio.
LegGreekNames == UNION {DOMAIN res.greeks[sym] : sym \in LegSymbols \cap DOMAIN res.greeks}

\* C26: aggregate_greeks raises KeyError when no leg has greeks or when some
\* leg's symbol is missing from the mapping; otherwise it returns, for each
\* greek name given for a leg, the sum over the legs of qty * the leg's value
\* of that greek, a leg without that greek contributing 0.
C26_AggregateGreeks ==
    res.op = "aggregate_greeks" =>
        IF LegSymbols \cap DOMAIN res.greeks = {} \/ LegSymbols \ DOMAIN res.greeks # {}
        THEN ~res.out.ok /\ res.out.err = "KeyError"
        ELSE /\ res.out.ok
             /\ DOMAIN res.out.val = LegGreekNames
             /\ \A k \in LegGreekNames :
                   res.out.val[k] =
                       SetSum([sym \in LegSymbols |->
                                  NetQty(sym) * (IF k \in DOMAIN res.greeks[sym]
                                                 THEN res.greeks[sym][k] ELSE 0)],
                              LegSymbols)

\* ------------------------------------------------------------ option structures
\* series.astype(str).str.lower().str.strip() on the right indicators drawn.
LowerStripped(raw) ==
    CASE raw = "C" -> "c" [] raw = "P" -> "p" [] raw = "Call" -> "call"
      [] raw = " put" -> "put" [] OTHER -> raw

\* _standardize_right: lower-cased, stripped, then "c" and "p" spelled out.
StandardizeRight(raw) ==
    LET low == LowerStripped(raw)
    IN  CASE low = "c" -> "call" [] low = "p" -> "put" [] OTHER -> low

\* df[df[rcol] == right]: the rows (by index label) of the given right.
OfRight(chain, right) ==
    {i \in 1..Len(chain) : StandardizeRight(chain[i].optionType) = right}

\* df.dropna(subset=...): the rows of S with a value in every column of subset.
DropNa(chain, S, subset) == {i \in S : \A c \in subset : chain[i][c].some}

\* (df[col] - target).abs().idxmin(): the first row of S at the least distance.
IdxMin(chain, S, col, target) ==
    CHOOSE i \in S : \A j \in S :
        \/ Abs(chain[i][col].v - target) < Abs(chain[j][col].v - target)
        \/ Abs(chain[i][col].v - target) = Abs(chain[j][col].v - target) /\ i <= j

\* pick_by_moneyness(chain, right=, target_moneyness=)
pick_by_moneyness(chain, right, target_moneyness) ==
    LET df == OfRight(chain, right)
        ok == DropNa(chain, df, {"mid", "moneyness", "strike"})
    IN  IF df = {} THEN Raise("ValueError")
        ELSE IF ok = {} THEN Raise("ValueError")
        ELSE Value(chain[IdxMin(chain, ok, "moneyness", target_moneyness)])

\* pick_atm_strike(chain, target_moneyness=): over the rows of both rights.
pick_atm_strike(chain, target_moneyness) ==
    LET df == DropNa(chain, 1..Len(chain), {"strike", "moneyness"})
    IN  IF df = {} THEN Raise("ValueError")
        ELSE Value(chain[IdxMin(chain, df, "moneyness", target_moneyness)].strike.v)

\* pick_by_strike(chain, right=, strike=)
pick_by_strike(chain, right, strike) ==
    LET df == DropNa(chain, OfRight(chain, right), {"mid", "strike"})
    IN  IF df = {} THEN Raise("ValueError")
        ELSE Value(chain[IdxMin(chain, df, "strike", strike)])

\* (the quantity is not negated)
SameQty(qty) == qty

\* qty=-float(qty)
ShortQty(qty) == 0 - qty

\* Leg(contract_symbol=str(row[sym_col]), right=, strike=float(row[strike_col]),
\* expiry=, qty=, mid=, ttm=, moneyness=), the optional fields None when null.
LegFromRow(row, right, expiry, qty) ==
    NewLeg(row.contractSymbol, right, row.strike.v, expiry, qty,
           row.mid, row.ttm, row.moneyness)

\* make_atm_straddle(chain, expiry=, qty=, atm_moneyness=)
make_atm_straddle(chain, expiry, qty, atm_moneyness) ==
    LET K        == pick_atm_strike(chain, atm_moneyness)
        call_row == pick_by_strike(chain, "call", K.val)
        put_row  == pick_by_strike(chain, "put", K.val)
    IN  IF ~K.ok THEN K
        ELSE IF ~call_row.ok THEN call_row
        ELSE IF ~put_row.ok THEN put_row
        ELSE Value(NewPortfolio(<<"ATM Straddle">>,
                     <<LegFromRow(call_row.val, "call", expiry, qty),
                       LegFromRow(put_row.val, "put", expiry, qty)>>))

\* make_vertical_spread(chain, expiry=, right=, k_long=, k_short=, qty=)
make_vertical_spread(chain, expiry, right, k_long, k_short, qty) ==
    LET long_row  == pick_by_strike(chain, right, k_long)
        short_row == pick_by_strike(chain, right, k_short)
    IN  IF ~long_row.ok THEN long_row
        ELSE IF ~short_row.ok THEN short_row
        ELSE Value(NewPortfolio(<<right, "Vertical", k_long, k_short>>,
                     <<LegFromRow(long_row.val, right, expiry, qty),
                       LegFromRow(short_row.val, right, expiry, ShortQty(qty))>>))

\* make_collar(chain, expiry=, put_moneyness=, call_moneyness=, qty=)
make_collar(chain, expiry, put_moneyness, call_moneyness, qty) ==
    LET put_row  == pick_by_moneyness(chain, "put", put_moneyness)
        call_row == pick_by_moneyness(chain, "call", call_moneyness)
    IN  IF ~put_row.ok THEN put_row
        ELSE IF ~call_row.ok THEN call_row
        ELSE Value(NewPortfolio(<<"Collar">>,
                     <<LegFromRow(put_row.val, "put", expiry, qty),
                       LegFromRow(call_row.val, "call", expiry, ShortQty(qty))>>))

\* make_risk_reversal(chain, expiry=, put_moneyness=, call_moneyness=, qty=,
\* direction=)
make_risk_reversal(chain, expiry, put_moneyness, call_moneyness, qty, direction) ==
    LET put_row  == pick_by_moneyness(chain, "put", put_moneyness)
        call_row == pick_by_moneyness(chain, "call", call_moneyness)
        rr_name  == IF direction = "bullish" THEN <<"Risk Reversal (Bullish)">>
                    ELSE <<"Risk Reversal (Bearish)">>
    IN  IF ~put_row.ok THEN put_row
        ELSE IF ~call_row.ok THEN call_row
        ELSE IF direction = "bullish"
        THEN Value(NewPortfolio(rr_name,
                     <<LegFromRow(call_row.val, "call", expiry, qty),
                       LegFromRow(put_row.val, "put", expiry, ShortQty(qty))>>))
        ELSE Value(NewPortfolio(rr_name,
                     <<LegFromRow(put_row.val, "put", expiry, qty),
                       LegFromRow(call_row.val, "call", expiry, ShortQty(qty))>>))

\* ------------------------------------------------------------ structure calls
\* Longest chain drawn.
MaxRows == 3

\* The rows a chain is drawn from (spot 100, moneyness in percent): calls and
\* puts at 95, 100 and 105 with a mid, a call at 100 without a mid, and a put
\* at 110 without a moneyness.
ChainRow(sym, right, strike, mid, moneyness) ==
    [contractSymbol |-> sym, optionType |-> right, strike |-> Some(strike),
     mid |-> mid, moneyness |-> moneyness, ttm |-> Some(30)]
RowPool ==
    {ChainRow("TSTC_95", "call", 95, Some(700), Some(95)),
     ChainRow("TSTC_100", "C", 100, Some(400), Some(100)),
     ChainRow("TSTC_105", "Call", 105, Some(200), Some(105)),
     ChainRow("TSTP_95", "put", 95, Some(200), Some(95)),
     ChainRow("TSTP_100", "P", 100, Some(400), Some(100)),
     ChainRow("TSTP_105", " put", 105, Some(700), Some(105)),
     ChainRow("TSTC_100X", "call", 100, Nothing, Some(100)),
     ChainRow("TSTP_110", "put", 110, Some(1100), Nothing)}
Chains == UNION {[1..n -> RowPool] : n \in 0..MaxRows}
StructureQtys == {1, 2}
StrikePairs == {<<95, 105>>, <<105, 95>>, <<100, 100>>}
Directions == {"bullish", "bearish", "neutral"}

StructureInit ==
    /\ Detached
    /\ \E chain \in Chains, qty \in StructureQtys :
          res \in {[op |-> "args", fn |-> "make_atm_straddle", chain |-> chain,
                    qty |-> qty, atm_moneyness |-> 100]}
                  \cup {[op |-> "args", fn |-> "make_vertical_spread", chain |-> chain,
                         qty |-> qty, right |-> right, k_long |-> k[1], k_short |-> k[2]] :
                           right \in {"call", "put"}, k \in StrikePairs}
                  \cup {[op |-> "args", fn |-> "make_collar", chain |-> chain,
                         qty |-> qty, put_moneyness |-> 95, call_moneyness |-> 105]}
                  \cup {[op |-> "args", fn |-> "make_risk_reversal", chain |-> chain,
                         qty |-> qty, put_moneyness |-> 95, call_moneyness |-> 105,
                         direction |-> direction] : direction \in Directions}

MakeAtmStraddle ==
    /\ res.op = "args" /\ res.fn = "make_atm_straddle"
    /\ res' = [op |-> "make_atm_straddle", args |-> res,
               out |-> make_atm_straddle(res.chain, "2026-02-01", res.qty,
                                         res.atm_moneyness)]
    /\ UNCHANGED <<opt, vols, models, evalDate, call, px>>

MakeVerticalSpread ==
    /\ res.op = "args" /\ res.fn = "make_vertical_spread"
    /\ res' = [op |-> "make_vertical_spread", args |-> res,
               out |-> make_vertical_spread(res.chain, "2026-02-01", res.right,
                                            res.k_long, res.k_short, res.qty)]
    /\ UNCHANGED <<opt, vols, models, evalDate, call, px>>

MakeCollar ==
    /\ res.op = "args" /\ res.fn = "make_collar"
    /\ res' = [op |-> "make_collar", args |-> res,
               out |-> make_collar(res.chain, "2026-02-01", res.put_moneyness,
                                   res.call_moneyness, res.qty)]
    /\ UNCHANGED <<opt, vols, models, evalDate, call, px>>

MakeRiskReversal ==
    /\ res.op = "args" /\ res.fn = "make_risk_reversal"
    /\ res' = [op |-> "make_risk_reversal", args |-> res,
               out |-> make_risk_reversal(res.chain, "2026-02-01", res.put_moneyness,
                                          res.call_moneyness, res.qty, res.direction)]
    /\ UNCHANGED <<opt, vols, models, evalDate, call, px>>

StructureNext == MakeAtmStraddle \/ MakeVerticalSpread \/ MakeCollar \/ MakeRiskReversal

StructureSpec == StructureInit /\ [][StructureNext]_vars

\* The rows of the chain of the last call that have the given right, a mid and
\* a strike.
UsableRows(right) ==
    {i \in 1..Len(res.args.chain) :
        /\ StandardizeRight(res.args.chain[i].optionType) = right
        /\ res.args.chain[i].mid.some /\ res.args.chain[i].strike.some}

\* The leg is built from a usable row of its right that is nearest to strike k.
NearestByStrike(leg, k) ==
    \E i \in UsableRows(leg.right) :
        /\ res.args.chain[i].contractSymbol = leg.contract_symbol
        /\ res.args.chain[i].strike.v = leg.strike
        /\ \A j \in UsableRows(leg.right) :
              Abs(leg.strike - k) <= Abs(res.args.chain[j].strike.v - k)

\* The legs are two, of the given rights, long qty and short qty.
LongShort(legs, long_right, short_right) ==
    /\ Len(legs) = 2
    /\ legs[1].right = long_right /\ legs[1].qty = res.args.qty
    /\ legs[2].right = short_right /\ legs[2].qty = 0 - res.args.qty

\* C27: a built vertical spread, collar or risk reversal has exactly two legs
\* with quantities +qty and -qty: the vertical is long the row nearest k_long
\* and short the row nearest k_short of the same right; the collar is long the
\* put and short the call; the risk reversal is long call / short put when
\* bullish and long put / short call otherwise.
C27_LongShortLegs ==
    /\ (res.op = "make_vertical_spread" /\ res.out.ok)
          => /\ LongShort(res.out.val.legs, res.args.right, res.args.right)
             /\ NearestByStrike(res.out.val.legs[1], res.args.k_long)
             /\ NearestByStrike(res.out.val.legs[2], res.args.k_short)
    /\ (res.op = "make_collar" /\ res.out.ok)
          => LongShort(res.out.val.legs, "put", "call")
    /\ (res.op = "make_risk_reversal" /\ res.out.ok)
          => IF res.args.direction = "bullish"
             THEN LongShort(res.out.val.legs, "call", "put")
             ELSE LongShort(res.out.val.legs, "put", "call")

\* A call vertical 95/105 built from a chain that has both strikes.
C27_Witness ==
    /\ res.op = "make_vertical_spread" /\ res.out.ok
    /\ res.args.right = "call" /\ res.args.k_long = 95 /\ res.args.k_short = 105
    /\ res.out.val.legs[1].strike = 95 /\ res.out.val.legs[1].qty = res.args.qty
    /\ res.out.val.legs[2].strike = 105 /\ res.out.val.legs[2].qty = 0 - res.args.qty

\* The rows of the chain of the last call with a strike and a moneyness.
AtmRows ==
    {i \in 1..Len(res.args.chain) :
        res.args.chain[i].strike.some /\ res.args.chain[i].moneyness.some}

\* C28: for a chain with a usable call row and a usable put row,
\* make_atm_straddle returns a call leg and a put leg, both of quantity +qty
\* and both at the strike of a chain row whose moneyness is closest to
\* atm_moneyness.
C28_StraddleSameStrike ==
    (res.op = "make_atm_straddle" /\ UsableRows("call") # {} /\ UsableRows("put") # {})
        => /\ res.out.ok
           /\ Len(res.out.val.legs) = 2
           /\ res.out.val.legs[1].right = "call" /\ res.out.val.legs[2].right = "put"
           /\ res.out.val.legs[1].qty = res.args.qty
           /\ res.out.val.legs[2].qty = res.args.qty
           /\ res.out.val.legs[1].strike = res.out.val.legs[2].strike
           /\ \E i \in AtmRows :
                 /\ res.args.chain[i].strike.v = res.out.val.legs[1].strike
                 /\ \A j \in AtmRows :
                       Abs(res.args.chain[i].moneyness.v - res.args.atm_moneyness)
                          <= Abs(res.args.chain[j].moneyness.v - res.args.atm_moneyness)

OptionGreeks(mdl) ==
    IF "greeks" \notin mdl.methods THEN Raise("AttributeError")
    ELSE IF ~mdl.greeks.is_dict THEN Raise("TypeError")
    ELSE Value([k \in {n \in DOMAIN mdl.greeks.d : mdl.greeks.d[n].some} |->
                   mdl.greeks.d[k].v])

\* (the greeks() mapping is consulted before the model's own method)
OptionGreekMappingFirst(name, mdl) ==
    LET g == OptionGreeks(mdl)
    IN  IF g.ok /\ name \in DOMAIN g.val THEN Value(g.val[name])
        ELSE IF name \in mdl.methods THEN Value(mdl.values[name])
        ELSE IF ~g.ok THEN g
        ELSE Raise("AttributeError")

\* Option.delta / gamma / vega on the resolved model mdl: the model's method
\* of that name when it has one, else the entry of self.greeks(model=mdl),
\* else AttributeError.
OptionGreek(name, mdl) ==
    IF name \in mdl.methods THEN Value(mdl.values[name])
    ELSE LET g == OptionGreeks(mdl)
         IN  IF ~g.ok THEN g
             ELSE IF name \in DOMAIN g.val THEN Value(g.val[name])
             ELSE Raise("AttributeError")

\* The greeks Option exposes one by one, and the models drawn: any set of
\* methods among delta, vega and greeks next to price; each method returns 7;
\* greeks() returns a non-dict, or a dict with any of delta, gamma and vega,
\* each 5 or None.
GreekOps == {"delta", "gamma", "vega"}
GreekResults ==
    {[is_dict |-> FALSE, d |-> <<>>]}
    \cup {[is_dict |-> TRUE, d |-> d] :
            d \in UNION {[K -> {Some(5), Nothing}] : K \in SUBSET GreekOps}}
DuckModels ==
    {[methods |-> ms \cup {"price"}, values |-> [n \in GreekOps |-> 7], greeks |-> g] :
        ms \in SUBSET {"delta", "vega", "greeks"}, g \in GreekResults}

\* The equity Black-Scholes model: its public methods, and the five entries
\* of its greeks().
EquityModel ==
    [methods |-> BlackScholesAnalyticEQModelMethods,
     values |-> [n \in GreekOps |-> 0],
     greeks |-> [is_dict |-> TRUE,
                 d |-> [n \in {"delta", "gamma", "vega", "theta", "rho"} |->
                          CASE n = "delta" -> Some(55) [] n = "gamma" -> Some(28)
                            [] n = "vega" -> Some(277) [] n = "theta" -> Some(0 - 60)
                            [] n = "rho" -> Some(240)]]]

GreekInit ==
    /\ Detached
    /\ res \in {[op |-> "args", fn |-> fn, model |-> mdl] :
                   fn \in GreekOps, mdl \in DuckModels \cup {EquityModel}}

\* option.delta(model=mdl) / option.gamma(model=mdl) / option.vega(model=mdl)
GreekCall ==
    /\ res.op = "args"
    /\ res' = [op |-> res.fn, model |-> res.model, out |-> OptionGreek(res.fn, res.model)]
    /\ UNCHANGED <<opt, vols, models, evalDate, call, px>>

GreekNext == GreekCall

GreekSpec == GreekInit /\ [][GreekNext]_vars

\* The model of the last call has an entry for the greek called in the mapping
\* Option.greeks returns for it.
HasGreekEntry ==
    /\ "greeks" \in res.model.methods
    /\ res.model.greeks.is_dict
    /\ res.op \in DOMAIN res.model.greeks.d
    /\ res.model.greeks.d[res.op].some

\* C30: delta, gamma and vega return the result of the model's method of the
\* same name when the model has one; otherwise the entry of that name of the
\* greeks() mapping; AttributeError is raised exactly when the model has no
\* such method and the mapping has no such entry (a greeks() that is not a
\* dict raises TypeError instead); for the equity Black-Scholes model vega
\* is greeks()["vega"].
C30_GreekFallback ==
    res.op \in GreekOps =>
        /\ res.op \in res.model.methods => res.out = Value(res.model.values[res.op])
        /\ (res.op \notin res.model.methods /\ HasGreekEntry)
              => res.out = Value(res.model.greeks.d[res.op].v)
        /\ (~res.out.ok /\ res.out.err = "AttributeError")
              <=> (/\ res.op \notin res.model.methods
                   /\ ~HasGreekEntry
                   /\ ("greeks" \in res.model.methods => res.model.greeks.is_dict))
        /\ (res.model = EquityModel /\ res.op = "vega")
              => res.out = Value(EquityModel.greeks.d["vega"].v)

\* vega called on a model that has delta and greeks but no vega method: the
\* value comes from the mapping.
C30_Witness ==
    /\ res.op = "vega"
    /\ res.model.methods = {"price", "delta", "greeks"}
    /\ HasGreekEntry
    /\ res.out = Value(5)

====
